---- MODULE Spec2Model ----
(***************************************************************************)
(* Model of the execution path of the triangular arbitrage engine:        *)
(* RiskManager (execution/risk.py), TriangleExecutor                      *)
(* (execution/executor.py) and PositionRecovery (execution/recovery.py).  *)
(*                                                                         *)
(* Conventions.                                                            *)
(*  - Python floats are modelled as exact rationals; the inputs are drawn *)
(*    from sets on which every product and quotient the code forms is an  *)
(*    integer.  A price or a return is a record [n, d] standing for n/d.  *)
(*  - An Optional value is a sequence: <<>> is None, <<v>> is v.          *)
(*  - A message string is a sequence of tokens, so that concatenation,    *)
(*    str.startswith and substring tests are computed, not assumed.       *)
(***************************************************************************)
EXTENDS Integers, Sequences, FiniteSets, TLC

VARIABLES
    state,        \* RiskManager._state : RiskState
    balance,      \* RiskManager._balance
    limits,       \* RiskManager._limits : RiskLimits (fixed at construction)
    today,        \* the wall clock's calendar date, date.today()
    now_ms,       \* the wall clock in ms, get_timestamp_ms()
    ret,          \* the latest direct call on the risk manager and what it returned
    breach_day,   \* history: the calendar date of the latest record_trade_complete
                  \* that left daily_pnl <= -daily_loss_limit (0: none yet)
    seen_day,     \* history: the calendar date of the latest call on the risk manager
    config,       \* TriangleExecutor._config : ExecutorConfig
    stats,        \* TriangleExecutor._total/_successful/_failed_executions
    pc,           \* where the current execute() call is suspended
    opportunity,  \* execute's argument (Optional)
    risk_check,   \* execute's local risk_check (Optional)
    trade_size,   \* execute's local trade_size
    tasks,        \* the three _place_leg_order tasks handed to asyncio.gather
    result,       \* the ExecutionResult built by the call (Optional)
    orders,       \* the order calls made on the exchange client by this call
    calls,        \* the calls this execute() made on risk manager and recovery
    holdings,     \* recovery: the dict returned by _analyze_holdings, in order
    liquidation,  \* recovery: the locals of _liquidate_holdings
    recovery_result, \* what analyze_and_recover returned (Optional RecoveryResult)
    limiter,      \* RateLimiter: its three TokenBuckets, each with its lock
    callers,      \* the tasks calling the limiter and where each call stands
    timestamp_ms, \* the limiter's clock, get_timestamp_ms()
    limiter_calls, \* history: the number of calls made on the limiter
    _cache,       \* OrderbookManager._cache : dict[str, BBO]
    _callbacks,   \* OrderbookManager._callbacks, in registration order
    _update_count, \* OrderbookManager._update_count
    last_call,    \* history: the latest call on the OrderbookManager
    detector,     \* OpportunityDetector: _last_opportunity_time and _stats
    emits,        \* history: per triangle, when its opportunities were notified
    timestamp_us, \* the detector's clock, get_timestamp_us()
    prev_tick,    \* history: the tick before the latest (Optional)
    last_tick,    \* history: the latest tick and what on_price_update returned
    _running,     \* ArbitrageEngine._running
    shutdown_pc,  \* where ArbitrageEngine.shutdown() is suspended
    client_session, \* BinanceClient._session: "none", "open" or "closed"
    execution_task, \* the _execute_opportunity task created and not yet run
    recorded,     \* MetricsCollector: the opportunities recorded
    connection,   \* WebSocketConnection: _state, _reconnect_delay, _running,
                  \* _message_count
    run_pc,       \* where WebSocketConnection.run() is suspended
    last_msg,     \* history: the latest message the feed delivered (Optional)
    slept,        \* history: the latest delay handed to asyncio.sleep (Optional)
    attempts,     \* history: the number of connect() calls
    ticker_updates, \* the tickers the engine's handler put in the orderbook
    ws_log,       \* the latest line logged by the feed (Optional)
    stop_pc,      \* where WebSocketConnection.stop() is suspended
    exchange_symbols, \* SymbolManager._symbols, in insertion order
    _graph,       \* TriangleDiscovery._graph: its edges, in insertion order
    found_triangles, \* TriangleDiscovery._triangles
    manual_halt,  \* history: force_halt was called and no resume() has
                  \* returned True since
    executions    \* the execute calls of concurrent tasks on one executor

riskVars == <<state, balance, limits, today, now_ms, ret, breach_day, seen_day>>

execVars == <<config, stats, pc, opportunity, risk_check, trade_size, tasks,
              result, orders, calls, holdings, liquidation, recovery_result>>

limiterVars == <<limiter, callers, timestamp_ms, limiter_calls>>

bookVars == <<_cache, _callbacks, _update_count, last_call>>

detectorVars == <<detector, emits, timestamp_us, prev_tick, last_tick>>

engineVars == <<_running, shutdown_pc, client_session, execution_task, recorded>>

wsVars == <<connection, run_pc, last_msg, slept, attempts, ticker_updates, ws_log,
           stop_pc>>

graphVars == <<exchange_symbols, _graph, found_triangles>>

concurrentVars == <<executions>>

componentVars == <<limiterVars, bookVars, detectorVars, engineVars, wsVars, graphVars,
                   concurrentVars>>

otherVars == <<componentVars, manual_halt, executions>>

notLimiterVars == <<riskVars, execVars, bookVars, detectorVars, engineVars, wsVars,
                    graphVars, manual_halt, executions>>

notBookVars == <<riskVars, execVars, limiterVars, detectorVars, engineVars, wsVars,
                 graphVars, manual_halt, executions>>

notDetectorVars == <<riskVars, execVars, limiterVars, engineVars, wsVars, graphVars, manual_halt, executions>>

notEngineVars == <<limiterVars, bookVars, detectorVars, wsVars, graphVars, manual_halt, executions>>

notWsVars == <<riskVars, execVars, limiterVars, bookVars, detectorVars, engineVars,
               graphVars, manual_halt, executions>>

notGraphVars == <<riskVars, execVars, limiterVars, bookVars, detectorVars, engineVars,
                  wsVars, manual_halt, executions>>

vars == <<state, balance, limits, today, now_ms, ret, breach_day, seen_day,
          config, stats, pc, opportunity, risk_check, trade_size, tasks,
          result, orders, calls, holdings, liquidation, recovery_result,
          limiter, callers, timestamp_ms, limiter_calls,
          _cache, _callbacks, _update_count, last_call,
          detector, emits, timestamp_us, prev_tick, last_tick,
          _running, shutdown_pc, client_session, execution_task, recorded,
          connection, run_pc, last_msg, slept, attempts, ticker_updates, ws_log,
          stop_pc,
          exchange_symbols, _graph, found_triangles, manual_halt, executions>>

(***************************************************************************)
(* Bounds of the model.                                                    *)
(***************************************************************************)
MaxDay == 2        \* calendar dates are 1..MaxDay
MaxTime == 2       \* the ms clock advances at most to start + MaxTime
MaxOpen == 2       \* record_trade_start is driven while open_positions < MaxOpen
MaxTrades == 2     \* record_trade_complete is driven while daily_trades < MaxTrades
MaxExecutions == 2 \* execute() is called at most MaxExecutions times

(***************************************************************************)
(* Values.                                                                 *)
(***************************************************************************)
None == <<>>
Some(v) == <<v>>

Rat(n, d) == [n |-> n, d |-> d]

startswith(s, prefix) == Len(s) > 0 /\ s[1] = prefix

contains(s, token) == \E i \in 1..Len(s) : s[i] = token

max(a, b) == IF a >= b THEN a ELSE b

min(a, b) == IF a <= b THEN a ELSE b

(***************************************************************************)
(* RiskState, RiskLimits, RiskCheckResult.                                 *)
(***************************************************************************)
RiskState(d) ==
    [daily_pnl |-> 0, daily_trades |-> 0, open_positions |-> 0,
     last_trade_time_ms |-> 0, current_date |-> d,
     is_halted |-> FALSE, halt_reason |-> <<>>]

RiskLimits(conc, cooldown) ==
    [max_position_pct |-> Rat(1, 2), max_trade_size |-> 32, min_trade_size |-> 16,
     daily_loss_limit |-> 50, max_daily_trades |-> 2,
     max_concurrent_positions |-> conc, min_time_between_trades_ms |-> cooldown]

RiskCheckResult(passed, reason, adjusted_size) ==
    [passed |-> passed, reason |-> reason, adjusted_size |-> adjusted_size]

DailyLossLimitReached == <<"Daily", "loss limit", "reached">>

\* a reset that lifts whatever halt is in force
reset_daily_lift_all(s, date_today) ==
    [s EXCEPT !.daily_pnl = 0, !.daily_trades = 0, !.current_date = date_today,
              !.is_halted = FALSE, !.halt_reason = <<>>]

reset_daily(s, date_today) ==
    LET r == [s EXCEPT !.daily_pnl = 0, !.daily_trades = 0,
                       !.current_date = date_today]
    IN  IF startswith(s.halt_reason, "Daily")
        THEN [r EXCEPT !.is_halted = FALSE, !.halt_reason = <<>>]
        ELSE r

_halt(s, reason) == [s EXCEPT !.is_halted = TRUE, !.halt_reason = reason]

loss_limit_breached(s) == s.daily_pnl <= -limits.daily_loss_limit

daily_trades_reached(s) == s.daily_trades >= limits.max_daily_trades

\* a gate that never finds the positions used up
positions_full_unchecked(s) == FALSE

positions_full_gt(s) == s.open_positions > limits.max_concurrent_positions

positions_full(s) == s.open_positions >= limits.max_concurrent_positions

time_since_last(s, now) == now - s.last_trade_time_ms

cooldown_active(s, now) ==
    time_since_last(s, now) < limits.min_time_between_trades_ms

get_max_trade_size ==
    min(limits.max_trade_size,
        (balance * limits.max_position_pct.n) \div limits.max_position_pct.d)

_validate_trade_size_no_recheck(size) ==
    IF size < limits.min_trade_size THEN None
    ELSE Some(IF size > get_max_trade_size THEN get_max_trade_size ELSE size)

\* a size check that knows max_trade_size only
_validate_trade_size_cap_only(size) ==
    IF size < limits.min_trade_size THEN None
    ELSE Some(min(size, limits.max_trade_size))

_validate_trade_size(size) ==
    IF size < limits.min_trade_size THEN None
    ELSE LET clamped == IF size > get_max_trade_size THEN get_max_trade_size ELSE size
         IN  IF clamped < limits.min_trade_size THEN None ELSE Some(clamped)

expected_profit(size, net_return) ==
    (size * (net_return.n - net_return.d)) \div net_return.d

check_trade(s0, opp, size, date_today, now) ==
    LET s == IF date_today # s0.current_date THEN reset_daily(s0, date_today) ELSE s0
        adjusted_size == _validate_trade_size(size)
    IN  IF s.is_halted THEN
            [state |-> s,
             result |-> RiskCheckResult(FALSE, <<"Trading halted:">> \o s.halt_reason, None)]
        ELSE IF loss_limit_breached(s) THEN
            [state |-> _halt(s, DailyLossLimitReached),
             result |-> RiskCheckResult(FALSE, DailyLossLimitReached, None)]
        ELSE IF daily_trades_reached(s) THEN
            [state |-> s,
             result |-> RiskCheckResult(FALSE, <<"Daily trade limit reached">>, None)]
        ELSE IF positions_full(s) THEN
            [state |-> s,
             result |-> RiskCheckResult(FALSE, <<"Max concurrent positions reached">>, None)]
        ELSE IF cooldown_active(s, now) THEN
            [state |-> s,
             result |-> RiskCheckResult(FALSE,
                 <<"Cooldown:",
                   limits.min_time_between_trades_ms - time_since_last(s, now),
                   "ms remaining">>, None)]
        ELSE IF adjusted_size = None THEN
            [state |-> s,
             result |-> RiskCheckResult(FALSE, <<"Trade size outside limits">>, None)]
        ELSE IF expected_profit(adjusted_size[1], opp.net_return) < 0 THEN
            [state |-> s,
             result |-> RiskCheckResult(FALSE, <<"Negative expected profit">>, None)]
        ELSE [state |-> s, result |-> RiskCheckResult(TRUE, <<>>, adjusted_size)]

record_trade_start(s, now) ==
    [s EXCEPT !.open_positions = @ + 1, !.last_trade_time_ms = now]

record_trade_complete_no_halt(s, pnl) ==
    [s EXCEPT !.open_positions = max(0, @ - 1), !.daily_trades = @ + 1,
              !.daily_pnl = @ + pnl]

record_trade_complete(s, pnl) ==
    LET r == [s EXCEPT !.open_positions = max(0, @ - 1), !.daily_trades = @ + 1,
                       !.daily_pnl = @ + pnl]
    IN  IF loss_limit_breached(r) THEN _halt(r, DailyLossLimitReached) ELSE r

\* record_trade_failed counting the failure as one of the day's trades
\* a failure that leaves the position open
record_trade_failed_forgotten(s) == s

record_trade_failed_counted(s) ==
    [s EXCEPT !.open_positions = max(0, @ - 1), !.daily_trades = @ + 1]

record_trade_failed_unclamped(s) == [s EXCEPT !.open_positions = @ - 1]

record_trade_failed(s) == [s EXCEPT !.open_positions = max(0, @ - 1)]

resume(s) ==
    IF loss_limit_breached(s)
    THEN [state |-> s, result |-> FALSE]
    ELSE [state |-> [s EXCEPT !.is_halted = FALSE, !.halt_reason = <<>>],
          result |-> TRUE]

force_halt(s, reason) == _halt(s, <<"Manual:">> \o reason)

(***************************************************************************)
(* The risk manager driven by an arbitrary caller (SpecRisk).              *)
(***************************************************************************)
TradeSizes == {8, 16, 48}

NetReturns == {Rat(1, 2), Rat(1, 1), Rat(3, 2)}

Pnls == {-30, 30}

Balances == {24, 48, 64}

HaltReasons == {<<"Test halt">>, <<"Daily", "audit">>}

(***************************************************************************)
(* Exact arithmetic on the rationals that stand for Python floats.         *)
(***************************************************************************)
\* (the bound variables make TLC evaluate each operand once)
RECURSIVE GCD(_, _)
GCD(a, b) ==
    CHOOSE g \in {IF y[2] = 0 THEN y[1] ELSE GCD(y[2], y[1] % y[2]) : y \in {<<a, b>>}} :
        TRUE

Norm(r) ==
    CHOOSE v \in {Rat(y[1].n \div y[2], y[1].d \div y[2]) :
                    y \in {<<x, GCD(x.n, x.d)>> : x \in {r}}} : TRUE

AddRat(a, b) ==
    CHOOSE v \in {Norm(Rat(y[1].n * y[2].d + y[2].n * y[1].d, y[1].d * y[2].d)) :
                    y \in {<<a, b>>}} : TRUE

\* quantity * price and quantity / price (the inputs keep them integral)
Mul(q, p) == (q * p.n) \div p.d

Div(q, p) == (q * p.d) \div p.n

\* Python's round() of the non-negative rational n/d: half goes to even
RoundHalfEven(n, d) ==
    LET q == n \div d
        r == n % d
    IN  IF 2 * r < d THEN q
        ELSE IF 2 * r > d THEN q + 1
        ELSE IF q % 2 = 0 THEN q ELSE q + 1

(***************************************************************************)
(* Symbols, legs, paths, opportunities.  A symbol name f"{base}{quote}"    *)
(* is the pair <<base, quote>>.                                            *)
(***************************************************************************)
base_currency == "USDT"

BTCUSDT == <<"BTC", "USDT">>

ETHUSDT == <<"ETH", "USDT">>

ETHBTC == <<"ETH", "BTC">>

SymbolInfo(symbol, min_qty, step_size, tick_size) ==
    [symbol |-> symbol, base_asset |-> symbol[1], quote_asset |-> symbol[2],
     min_qty |-> min_qty, step_size |-> step_size, tick_size |-> tick_size]

\* SymbolManager._symbols
_symbols ==
    {SymbolInfo(BTCUSDT, 1, 1, Rat(1, 1)),
     SymbolInfo(ETHUSDT, 4, 4, Rat(1, 1)),
     SymbolInfo(ETHBTC, 1, 1, Rat(1, 2))}

get(symbol) ==
    IF \E i \in _symbols : i.symbol = symbol
    THEN Some(CHOOSE i \in _symbols : i.symbol = symbol)
    ELSE None

find_symbol(base, quote) ==
    IF \E i \in _symbols : i.symbol = <<base, quote>>
    THEN Some(<<base, quote>>)
    ELSE None

round_quantity(info, qty) == RoundHalfEven(qty, info.step_size) * info.step_size

round_price(info, price) ==
    Rat(RoundHalfEven(price.n * info.tick_size.d, price.d * info.tick_size.n)
            * info.tick_size.n,
        info.tick_size.d)

TriangleLeg(symbol, side, from_asset, to_asset) ==
    [symbol |-> symbol, side |-> side, from_asset |-> from_asset,
     to_asset |-> to_asset]

TrianglePath(id, legs) == [id |-> id, base_asset |-> base_currency, legs |-> legs]

PathBTCETH ==
    TrianglePath("USDT-BTC-ETH",
        <<TriangleLeg(BTCUSDT, "BUY", "USDT", "BTC"),
          TriangleLeg(ETHBTC, "BUY", "BTC", "ETH"),
          TriangleLeg(ETHUSDT, "SELL", "ETH", "USDT")>>)

PathETHBTC ==
    TrianglePath("USDT-ETH-BTC",
        <<TriangleLeg(ETHUSDT, "BUY", "USDT", "ETH"),
          TriangleLeg(ETHBTC, "SELL", "ETH", "BTC"),
          TriangleLeg(BTCUSDT, "SELL", "BTC", "USDT")>>)

Paths == {PathBTCETH, PathETHBTC}

\* the best price seen on each symbol when the opportunity was detected
PriceOf(symbol, ethbtc) ==
    IF symbol = BTCUSDT THEN Rat(4, 1)
    ELSE IF symbol = ETHUSDT THEN Rat(2, 1)
    ELSE ethbtc

EthBtcPrices == {Rat(1, 2), Rat(2, 1)}

MaxTradeQtys == {8, 48}

OppNetReturns == {Rat(1, 2), Rat(3, 2)}

Opportunity(path, ethbtc, max_trade_qty, net_return) ==
    [path |-> path,
     prices |-> [i \in 1..3 |-> PriceOf(path.legs[i].symbol, ethbtc)],
     max_trade_qty |-> max_trade_qty, net_return |-> net_return]

\* Opportunity.is_profitable: net_return > 1.0
is_profitable(opp) == opp.net_return.n > opp.net_return.d

Opportunities ==
    {Opportunity(p, e, q, n) :
        p \in Paths, e \in EthBtcPrices, q \in MaxTradeQtys, n \in OppNetReturns}

(***************************************************************************)
(* TriangleExecutor: records and pure helpers.                             *)
(***************************************************************************)
ExecutorConfig(use_market_orders, dry_run) ==
    [use_market_orders |-> use_market_orders, slippage_buffer |-> Rat(1, 10000),
     order_timeout_ms |-> 5000, dry_run |-> dry_run]

LegResult(leg, status, filled_qty, filled_price, commission, error_message) ==
    [leg |-> leg, status |-> status, filled_qty |-> filled_qty,
     filled_price |-> filled_price, commission |-> commission,
     error_message |-> error_message]

is_filled(r) == r.status = "FILLED"

ExecutionResult(opp, status, legs, total_profit, total_commission, error_message) ==
    [opportunity |-> opp, status |-> status, legs |-> legs,
     total_profit |-> total_profit, total_commission |-> total_commission,
     error_message |-> error_message]

is_success(r) == r.status = "SUCCESS"

_create_failed_result(opp, error) ==
    ExecutionResult(opp, "FAILED",
        [i \in 1..3 |-> LegResult(opp.path.legs[i], "FAILED", 0, Rat(0, 1),
                                  Rat(0, 1), error)],
        0, Rat(0, 1), error)

_calculate_leg_quantities(opp, size) ==
    LET legs == opp.path.legs
        qty1 == IF legs[1].side = "BUY" THEN Div(size, opp.prices[1]) ELSE size
        qty2 == IF legs[2].side = "BUY" THEN Div(qty1, opp.prices[2])
                ELSE Mul(qty1, opp.prices[2])
        qty3 == IF legs[3].side = "SELL" THEN Mul(qty2, opp.prices[3])
                ELSE Div(qty2, opp.prices[3])
    IN  <<qty1, qty2, qty3>>

_apply_slippage(price, side) ==
    LET b == config.slippage_buffer
    IN  IF side = "BUY" THEN Rat(price.n * (b.d + b.n), price.d * b.d)
        ELSE Rat(price.n * (b.d - b.n), price.d * b.d)

\* the arguments of one client.place_limit_order / place_market_order call
Order(via, symbol, side, quantity, price) ==
    [via |-> via, symbol |-> symbol, side |-> side, quantity |-> quantity,
     price |-> price]

\* _execute_live's loop body and _place_leg_order up to its await:
\* price is None for market orders, the slipped price otherwise
_place_leg_order(opp, size, i) ==
    LET leg == opp.path.legs[i]
        qty == _calculate_leg_quantities(opp, size)[i]
        price == IF config.use_market_orders THEN None
                 ELSE Some(_apply_slippage(opp.prices[i], leg.side))
        info == get(leg.symbol)
        quantity == IF info # None THEN round_quantity(info[1], qty) ELSE qty
        rounded == IF info # None /\ price # None
                   THEN Some(round_price(info[1], price[1])) ELSE price
    IN  IF rounded # None /\ ~config.use_market_orders
        THEN Order("place_limit_order", leg.symbol, leg.side, quantity, rounded)
        ELSE Order("place_market_order", leg.symbol, leg.side, quantity, None)

(***************************************************************************)
(* What the exchange client can give back for an order: an OrderResponse   *)
(* (carrying at most one fill) or a raised exception.                      *)
(***************************************************************************)
NoOutcome ==
    [kind |-> "none", status |-> "", executed_qty |-> 0, price |-> Rat(0, 1),
     cummulative_quote_qty |-> 0, commission |-> Rat(0, 1), fills |-> 0]

Raised == [NoOutcome EXCEPT !.kind = "exception"]

OrderResponse(status, order, market_price, executed_qty) ==
    LET price == IF order.price # None THEN order.price[1] ELSE market_price
    IN  [kind |-> "response", status |-> status, executed_qty |-> executed_qty,
         price |-> price, cummulative_quote_qty |-> Mul(executed_qty, price),
         commission |-> IF executed_qty > 0 THEN Rat(1, 1) ELSE Rat(0, 1),
         fills |-> IF executed_qty > 0 THEN 1 ELSE 0]

Responses(order, market_price) ==
    {Raised,
     OrderResponse("REJECTED", order, market_price, 0),
     OrderResponse("EXPIRED", order, market_price, 0),
     OrderResponse("CANCELED", order, market_price, 0)}
    \cup (IF order.quantity > 0
          THEN {OrderResponse("FILLED", order, market_price, order.quantity)}
          ELSE {})
    \cup (IF order.quantity > 1
          THEN {OrderResponse("PARTIALLY_FILLED", order, market_price,
                              order.quantity \div 2)}
          ELSE {})

OrderStatus ==
    {"PENDING", "SENT", "FILLED", "PARTIALLY_FILLED", "CANCELLED", "REJECTED",
     "EXPIRED", "FAILED"}

\* OrderResponse.avg_fill_price
avg_fill_price(r) == r.price

\* OrderResponse.total_commission
total_commission(r) == r.commission

_process_order_result_no_text(leg, r) ==
    IF r.kind = "response" THEN
        LegResult(leg, IF r.status \in OrderStatus THEN r.status ELSE "FAILED",
                  r.executed_qty, avg_fill_price(r), total_commission(r), <<>>)
    ELSE
        LegResult(leg, "FAILED", 0, Rat(0, 1), Rat(0, 1), <<>>)

\* _process_order_result letting a raised exception through in the leg's place
_process_order_result_reraise(leg, r) ==
    IF r.kind = "exception" THEN
        LegResult(leg, "EXCEPTION", 0, Rat(0, 1), Rat(0, 1), <<"exchange error">>)
    ELSE IF r.kind = "response" THEN
        LegResult(leg, IF r.status \in OrderStatus THEN r.status ELSE "FAILED",
                  r.executed_qty, avg_fill_price(r), total_commission(r), <<>>)
    ELSE
        LegResult(leg, "FAILED", 0, Rat(0, 1), Rat(0, 1), <<"Unknown result type">>)

_process_order_result(leg, r) ==
    IF r.kind = "exception" THEN
        LegResult(leg, "FAILED", 0, Rat(0, 1), Rat(0, 1), <<"exchange error">>)
    ELSE IF r.kind = "response" THEN
        LegResult(leg, IF r.status \in OrderStatus THEN r.status ELSE "FAILED",
                  r.executed_qty, avg_fill_price(r), total_commission(r), <<>>)
    ELSE
        LegResult(leg, "FAILED", 0, Rat(0, 1), Rat(0, 1), <<"Unknown result type">>)

_process_order_results_skip_raised(legs, results) ==
    LET kept == SelectSeq([i \in 1..min(Len(legs), Len(results)) |->
                              [leg |-> legs[i], r |-> results[i]]],
                          LAMBDA e : e.r.kind # "exception")
    IN  [i \in 1..Len(kept) |-> _process_order_result(kept[i].leg, kept[i].r)]

_process_order_results(legs, results) ==
    [i \in 1..min(Len(legs), Len(results)) |-> _process_order_result(legs[i], results[i])]

filled_count(leg_results) ==
    Cardinality({i \in 1..Len(leg_results) : is_filled(leg_results[i])})

_determine_status_majority(leg_results) ==
    IF filled_count(leg_results) >= 2 THEN "SUCCESS"
    ELSE IF filled_count(leg_results) = 0 THEN "FAILED"
    ELSE "PARTIAL"

_determine_status(leg_results) ==
    IF filled_count(leg_results) = 3 THEN "SUCCESS"
    ELSE IF filled_count(leg_results) = 0 THEN "FAILED"
    ELSE "PARTIAL"

RECURSIVE _calculate_pnl_from(_, _, _)
_calculate_pnl_from(leg_results, i, acc) ==
    IF i > Len(leg_results) THEN acc
    ELSE LET r == leg_results[i]
             notional == Mul(r.filled_qty, r.filled_price)
         IN  IF ~is_filled(r) THEN _calculate_pnl_from(leg_results, i + 1, acc)
             ELSE _calculate_pnl_from(leg_results, i + 1,
                    [total_spent |-> acc.total_spent
                                     + (IF r.leg.side = "BUY" THEN notional ELSE 0),
                     total_received |-> acc.total_received
                                     + (IF r.leg.side = "BUY" THEN 0 ELSE notional),
                     total_commission |-> AddRat(acc.total_commission, r.commission)])

\* returns [profit, total_commission]; the exchange's commissions are whole
_calculate_pnl(leg_results) ==
    LET acc == _calculate_pnl_from(leg_results, 1,
                   [total_spent |-> 0, total_received |-> 0,
                    total_commission |-> Rat(0, 1)])
    IN  [profit |-> acc.total_received - acc.total_spent
                    - (acc.total_commission.n \div acc.total_commission.d),
         total_commission |-> acc.total_commission]

\* _execute_dry_run with the profit taken from the simulated fills
_execute_dry_run_from_fills(opp, size) ==
    LET quantities == _calculate_leg_quantities(opp, size)
        leg_results ==
            [i \in 1..3 |->
                LegResult(opp.path.legs[i], "FILLED", quantities[i], opp.prices[i],
                          Norm(Rat(quantities[i] * opp.prices[i].n,
                                   opp.prices[i].d * 1000)), <<>>)]
    IN  ExecutionResult(opp, "SUCCESS", leg_results,
            _calculate_pnl(leg_results).profit,
            AddRat(AddRat(leg_results[1].commission, leg_results[2].commission),
                   leg_results[3].commission),
            <<>>)

\* _execute_dry_run: three simulated fills, a 0.1% fee, the expected profit
_execute_dry_run(opp, size) ==
    LET quantities == _calculate_leg_quantities(opp, size)
        leg_results ==
            [i \in 1..3 |->
                LegResult(opp.path.legs[i], "FILLED", quantities[i], opp.prices[i],
                          Norm(Rat(quantities[i] * opp.prices[i].n,
                                   opp.prices[i].d * 1000)), <<>>)]
    IN  ExecutionResult(opp, "SUCCESS", leg_results,
            expected_profit(size, opp.net_return),
            AddRat(AddRat(leg_results[1].commission, leg_results[2].commission),
                   leg_results[3].commission),
            <<>>)

(***************************************************************************)
(* PositionRecovery.  A dict[str, float] is the sequence of its items in   *)
(* insertion order.                                                        *)
(***************************************************************************)
dict_has(h, k) == \E j \in 1..Len(h) : h[j].asset = k

dict_get(h, k) == h[CHOOSE j \in 1..Len(h) : h[j].asset = k].amount

dict_set(h, k, v) ==
    IF dict_has(h, k)
    THEN [j \in 1..Len(h) |-> IF h[j].asset = k THEN [asset |-> k, amount |-> v] ELSE h[j]]
    ELSE Append(h, [asset |-> k, amount |-> v])

dict_del(h, k) == SelectSeq(h, LAMBDA e : e.asset # k)

\* first loop of _analyze_holdings: what each (partly) filled leg received
RECURSIVE _received(_, _, _)
_received(legs, i, h) ==
    IF i > Len(legs) THEN h
    ELSE LET r == legs[i]
             asset == r.leg.to_asset
         IN  IF /\ r.status \in {"FILLED", "PARTIALLY_FILLED"}
                /\ r.filled_qty > 0
                /\ asset # base_currency
             THEN _received(legs, i + 1,
                      dict_set(h, asset,
                          (IF dict_has(h, asset) THEN dict_get(h, asset) ELSE 0)
                          + r.filled_qty))
             ELSE _received(legs, i + 1, h)

\* second loop: every FILLED leg takes its filled_qty off its from_asset
RECURSIVE _consumed(_, _, _)
_consumed(legs, i, h) ==
    IF i > Len(legs) THEN h
    ELSE LET r == legs[i]
             asset == r.leg.from_asset
         IN  IF r.status = "FILLED" /\ dict_has(h, asset)
             THEN LET left == dict_get(h, asset) - r.filled_qty
                  IN  _consumed(legs, i + 1,
                          IF left <= 0 THEN dict_del(h, asset)
                          ELSE dict_set(h, asset, left))
             ELSE _consumed(legs, i + 1, h)

_analyze_holdings(execution_result) ==
    SelectSeq(_consumed(execution_result.legs, 1,
                        _received(execution_result.legs, 1, <<>>)),
              LAMBDA e : e.amount > 0)

\* _liquidate_asset up to its await: the market order it places, if any
_liquidate_asset(asset, amount) ==
    LET direct == find_symbol(asset, base_currency)
        reverse == find_symbol(base_currency, asset)
        symbol == IF direct # None THEN direct ELSE reverse
        side == IF direct # None THEN "SELL" ELSE "BUY"
    IN  IF symbol = None THEN None
        ELSE IF get(symbol[1]) = None THEN None
        ELSE LET normalized_qty == round_quantity(get(symbol[1])[1], amount)
             IN  IF normalized_qty < get(symbol[1])[1].min_qty THEN None
                 ELSE Some(Order("place_market_order", symbol[1], side,
                                 normalized_qty, None))

\* the first item of holdings at or after index i that places an order
RECURSIVE next_liquidation(_, _)
next_liquidation(h, i) ==
    IF i > Len(h) THEN i
    ELSE IF _liquidate_asset(h[i].asset, h[i].amount) # None THEN i
    ELSE next_liquidation(h, i + 1)

Liquidation(index, total_recovered, total_cost, errors) ==
    [index |-> index, total_recovered |-> total_recovered,
     total_cost |-> total_cost, errors |-> errors]

RecoveryResult(h, liq) ==
    [action |-> "LIQUIDATE", success |-> Len(liq.errors) = 0,
     original_asset |-> IF Len(h) > 0 THEN h[1].asset ELSE "",
     recovered_amount |-> liq.total_recovered, recovery_cost |-> liq.total_cost,
     error_message |-> liq.errors]

(***************************************************************************)
(* The executor between two execute() calls.                               *)
(***************************************************************************)
Stats(total, successful, failed) ==
    [total |-> total, successful |-> successful, failed |-> failed]

Task(st, outcome) == [st |-> st, outcome |-> outcome]

NoTasks == [i \in 1..3 |-> Task("pending", NoOutcome)]

ExecutorIdle ==
    /\ stats = Stats(0, 0, 0)
    /\ pc = "idle"
    /\ opportunity = None
    /\ risk_check = None
    /\ trade_size = 0
    /\ tasks = NoTasks
    /\ result = None
    /\ orders = <<>>
    /\ calls = <<>>
    /\ holdings = <<>>
    /\ liquidation = Liquidation(0, 0, Rat(0, 1), <<>>)
    /\ recovery_result = None

(***************************************************************************)
(* TokenBucket and RateLimiter.  Times are in ms; the model's clock moves  *)
(* in steps of TickMs, chosen so that every refill and every wait of the   *)
(* buckets below is a whole number of tokens and of ms.  An asyncio.Lock   *)
(* is its holder (0: unlocked) and the FIFO queue of the tasks waiting.    *)
(***************************************************************************)
TickMs == 10000

Buckets == {"_request_bucket", "_order_bucket", "_weight_bucket"}

\* TokenBucket.__post_init__
TokenBucket(capacity, refill_rate, now) ==
    [capacity |-> capacity, refill_rate |-> refill_rate, tokens |-> capacity,
     last_refill |-> now, holder |-> 0, waiters |-> <<>>]

_refill(b, now) ==
    [b EXCEPT !.tokens = min(b.capacity,
                  b.tokens + ((now - b.last_refill) * b.refill_rate.n)
                                 \div (1000 * b.refill_rate.d)),
              !.last_refill = now]

\* acquire, lines 67-69: wait_seconds, in ms
wait_ms(b, n) == ((n - b.tokens) * 1000 * b.refill_rate.d) \div b.refill_rate.n

\* RateLimiter.__init__
RateLimiter(requests_per_second, orders_per_second, request_weight_per_minute, now) ==
    [k \in Buckets |->
        IF k = "_request_bucket"
        THEN TokenBucket(requests_per_second * 2, Rat(requests_per_second, 1), now)
        ELSE IF k = "_order_bucket"
        THEN TokenBucket(orders_per_second * 2, Rat(orders_per_second, 1), now)
        ELSE TokenBucket(request_weight_per_minute,
                         Rat(request_weight_per_minute, 60), now)]

\* one TokenBucket.acquire / try_acquire call of a caller: where it stands,
\* what it asked for, when its sleep ends, what it returned and what it took
Sub(phase, kind, n, wake, ok, took) ==
    [phase |-> phase, kind |-> kind, n |-> n, wake |-> wake, ok |-> ok,
     took |-> took]

NoSub == Sub("none", "", 0, 0, FALSE, 0)

Caller(st, op, weight, sub, returned) ==
    [st |-> st, op |-> op, weight |-> weight, sub |-> sub, returned |-> returned]

IdleCaller == Caller("idle", "", 0, [k \in Buckets |-> NoSub], None)

LimiterState(l, c) == [l |-> l, c |-> c]

\* releasing the lock hands it to the longest-waiting task
release(b) ==
    IF b.waiters = <<>> THEN [b EXCEPT !.holder = 0]
    ELSE [b EXCEPT !.holder = Head(b.waiters), !.waiters = Tail(b.waiters)]

\* the body of acquire / try_acquire under the lock, up to the sleep or the
\* return
in_lock(s, c, k, now) ==
    LET sub == s.c[c].sub[k]
        b == _refill(s.l[k], now)
    IN  IF b.tokens >= sub.n
        THEN LimiterState(
                [s.l EXCEPT ![k] = release([b EXCEPT !.tokens = @ - sub.n])],
                [s.c EXCEPT ![c].sub[k] =
                    Sub("done", sub.kind, sub.n, 0, TRUE, sub.n)])
        ELSE IF sub.kind = "acquire"
        THEN LimiterState(
                [s.l EXCEPT ![k] = b],
                [s.c EXCEPT ![c].sub[k] =
                    Sub("sleeping", sub.kind, sub.n, now + wait_ms(b, sub.n),
                        FALSE, 0)])
        ELSE LimiterState(
                [s.l EXCEPT ![k] = release(b)],
                [s.c EXCEPT ![c].sub[k] =
                    Sub("done", sub.kind, sub.n, 0, FALSE, 0)])

\* acquire that keeps waiting while the bucket holds less than was asked
wake_up_recheck(s, c, k, now) ==
    LET sub == s.c[c].sub[k]
        b == _refill(s.l[k], now)
    IN  IF b.tokens >= sub.n
        THEN LimiterState(
                [s.l EXCEPT ![k] = release([b EXCEPT !.tokens = @ - sub.n])],
                [s.c EXCEPT ![c].sub[k] =
                    Sub("done", sub.kind, sub.n, 0, TRUE, sub.n)])
        ELSE LimiterState([s.l EXCEPT ![k] = b], s.c)

\* acquire after its sleep, lines 73-77
wake_up(s, c, k, now) ==
    LET sub == s.c[c].sub[k]
        b == _refill(s.l[k], now)
    IN  LimiterState(
            [s.l EXCEPT ![k] = release([b EXCEPT !.tokens = @ - sub.n])],
            [s.c EXCEPT ![c].sub[k] = Sub("done", sub.kind, sub.n, 0, TRUE, sub.n)])

\* "async with self._lock": enter at once when the lock is free, queue else
enter(s, c, k, kind, n, now) ==
    LET s1 == LimiterState(s.l, [s.c EXCEPT ![c].sub[k] =
                                    Sub("lockwait", kind, n, 0, FALSE, 0)])
    IN  IF s.l[k].holder = 0
        THEN in_lock(LimiterState([s1.l EXCEPT ![k].holder = c], s1.c), c, k, now)
        ELSE LimiterState([s1.l EXCEPT ![k].waiters = Append(@, c)], s1.c)

\* the per-second bucket an operation of the limiter draws its one token from
first_bucket(op) ==
    IF op \in {"acquire_request", "try_acquire_request"}
    THEN "_request_bucket" ELSE "_order_bucket"

is_try(op) == op \in {"try_acquire_request", "try_acquire_order"}

return(s, c, value) ==
    LimiterState(s.l, [s.c EXCEPT ![c].st = "returned", ![c].returned = Some(value)])

\* asyncio.gather over the two acquire calls: done when both are
either_acquired(sub, op) ==
    \/ sub[first_bucket(op)].phase = "done"
    \/ sub["_weight_bucket"].phase = "done"

both_acquired(sub, op) ==
    /\ sub[first_bucket(op)].phase = "done"
    /\ sub["_weight_bucket"].phase = "done"

\* acquire_request / acquire_order after one of their two tasks moved
settle_acquire(s, c) ==
    IF both_acquired(s.c[c].sub, s.c[c].op) THEN return(s, c, "None") ELSE s

\* try_acquire_request / try_acquire_order from wherever the call stands to
\* its next suspension or its return
settle_try(s, c, now) ==
    LET f == first_bucket(s.c[c].op)
        first == s.c[c].sub[f]
    IN  IF first.phase # "done" THEN s
        ELSE IF ~first.ok THEN return(s, c, FALSE)
        ELSE LET s1 == IF s.c[c].sub["_weight_bucket"].phase = "none"
                       THEN enter(s, c, "_weight_bucket", "try_acquire",
                                  s.c[c].weight, now)
                       ELSE s
                 second == s1.c[c].sub["_weight_bucket"]
             IN  IF second.phase # "done" THEN s1
                 ELSE IF second.ok THEN return(s1, c, TRUE)
                 ELSE return(LimiterState([s1.l EXCEPT ![f].tokens = @ + 1], s1.c),
                             c, FALSE)

settle(s, c, now) ==
    IF is_try(s.c[c].op) THEN settle_try(s, c, now) ELSE settle_acquire(s, c)

MaxCallers == 2    \* tasks calling the limiter
MaxCalls == 3      \* calls made on the limiter in all
MaxTicks == 2      \* the clock advances freely up to MaxTicks * TickMs

Callers == 1..MaxCallers

Weights == {1, 5, 7}

LimiterOps == {"acquire_request", "acquire_order", "try_acquire_request",
               "try_acquire_order"}

LimiterInit ==
    /\ timestamp_ms = 0
    /\ limiter = RateLimiter(1, 1, 6, timestamp_ms)
    /\ callers = [c \in Callers |-> IdleCaller]
    /\ limiter_calls = 0

(***************************************************************************)
(* OrderbookManager.  The cache maps every symbol to its BBO, None when    *)
(* the dict has no such key.  A callback is known by its name and by       *)
(* whether calling it raises.                                              *)
(***************************************************************************)
BBO(symbol, bid_price, bid_qty, ask_price, ask_qty, update_id, timestamp) ==
    [symbol |-> symbol, bid_price |-> bid_price, bid_qty |-> bid_qty,
     ask_price |-> ask_price, ask_qty |-> ask_qty, update_id |-> update_id,
     timestamp_us |-> timestamp]

BookSymbols == {BTCUSDT, ETHUSDT, ETHBTC}

EmptyCache == [s \in BookSymbols |-> None]

\* only a BBO newer than the cached one is stored
store_if_newer(cache, bbo) ==
    IF cache[bbo.symbol] # None /\ cache[bbo.symbol][1].update_id >= bbo.update_id
    THEN cache
    ELSE [cache EXCEPT ![bbo.symbol] = Some(bbo)]

\* update, line 93
store(cache, bbo) == [cache EXCEPT ![bbo.symbol] = Some(bbo)]

has_all_symbols(cache, symbols) == \A s \in symbols : cache[s] # None

raises(callback) == callback = "bad_callback"

\* update, lines 96-98: the callbacks called, in order, and whether the loop
\* was left by an exception
notify(callbacks) ==
    LET raising == {i \in 1..Len(callbacks) : raises(callbacks[i])}
    IN  IF raising = {} THEN [notified |-> callbacks, raised |-> FALSE]
        ELSE [notified |-> SubSeq(callbacks, 1,
                              CHOOSE i \in raising : \A j \in raising : i <= j),
              raised |-> TRUE]

\* list.remove: the first occurrence goes
list_remove(list, x) ==
    LET i == CHOOSE j \in 1..Len(list) : list[j] = x /\ \A m \in 1..(j - 1) : list[m] # x
    IN  SubSeq(list, 1, i - 1) \o SubSeq(list, i + 1, Len(list))

\* the latest call on the manager: its arguments and what it did
BookCall(op, bbo, replaced, notified, raised) ==
    [op |-> op, bbo |-> bbo, replaced |-> replaced, notified |-> notified,
     raised |-> raised]

MaxUpdates == 3      \* update() is called at most MaxUpdates times
MaxCallbacks == 2    \* at most MaxCallbacks callbacks are registered at a time

CallbackNames == {"bad_callback", "good_callback"}

UpdateIds == {1, 2}

BookPrices == {1, 2}

BBOs ==
    {BBO(s, p, 1, p, 1, u, 0) : s \in {BTCUSDT, ETHUSDT}, p \in BookPrices, u \in UpdateIds}

BookInit ==
    /\ _cache = EmptyCache
    /\ _callbacks = <<>>
    /\ _update_count = 0
    /\ last_call = BookCall("__init__", None, None, <<>>, FALSE)

(***************************************************************************)
(* ArbitrageCalculator and OpportunityDetector.  Times are in us.          *)
(***************************************************************************)
COOLDOWN_US == 100000

StartUs == 1000000

MulRat(a, b) == Rat(a.n * b.n, a.d * b.d)

GeRat(a, b) == a.n * b.d >= b.n * a.d

\* ArbitrageCalculator.__init__
ArbitrageCalculator(fee_rate) ==
    LET keep == Rat(fee_rate.d - fee_rate.n, fee_rate.d)
    IN  [_fee_rate |-> fee_rate, _fee_multiplier |-> MulRat(MulRat(keep, keep), keep)]

\* a setter that leaves the pre-computed multiplier as it was
set_fee_rate_stale(calculator, fee_rate) ==
    [calculator EXCEPT !._fee_rate = fee_rate]

\* ArbitrageCalculator.set_fee_rate
set_fee_rate(calculator, fee_rate) ==
    LET keep == Rat(fee_rate.d - fee_rate.n, fee_rate.d)
    IN  [calculator EXCEPT !._fee_rate = fee_rate,
                           !._fee_multiplier = MulRat(MulRat(keep, keep), keep)]

\* the engine's calculator
_calculator == ArbitrageCalculator(Rat(1, 10))

_calculate_gross_return(side1, price1, side2, price2, side3, price3) ==
    LET leg(r, side, price) ==
            IF side = "BUY" THEN Rat(r.n, r.d * price)
            ELSE Rat(r.n * price, r.d)
    IN  leg(leg(leg(Rat(1, 1), side1, price1), side2, price2), side3, price3)

_calculate_max_quantity(side1, price1, qty1, side2, price2, qty2, side3, price3, qty3) ==
    LET max_from_leg1 == qty1 * price1
        max_from_leg2 == qty2 * price2 * price1
        max_from_leg3 == IF side3 = "SELL" THEN qty3 * price3 ELSE qty3
    IN  min(max_from_leg1, min(max_from_leg2, max_from_leg3))

symbols(path) == {path.legs[i].symbol : i \in 1..3}

calculate_opportunity(calculator, path, cache, timestamp) ==
    IF \E i \in 1..3 : cache[path.legs[i].symbol] = None THEN None
    ELSE LET bbo == [i \in 1..3 |-> cache[path.legs[i].symbol][1]]
             side == [i \in 1..3 |-> path.legs[i].side]
             price == [i \in 1..3 |-> IF side[i] = "BUY" THEN bbo[i].ask_price
                                      ELSE bbo[i].bid_price]
             qty == [i \in 1..3 |-> IF side[i] = "BUY" THEN bbo[i].ask_qty
                                    ELSE bbo[i].bid_qty]
         IN  IF \E i \in 1..3 : price[i] <= 0 THEN None
             ELSE LET gross_return ==
                          _calculate_gross_return(side[1], price[1], side[2], price[2],
                                                  side[3], price[3])
                      net_return == MulRat(gross_return, calculator._fee_multiplier)
                  IN  Some([path |-> path,
                            profit_pct |-> Norm(Rat((net_return.n - net_return.d) * 100,
                                                    net_return.d)),
                            gross_return |-> gross_return,
                            net_return |-> net_return,
                            prices |-> price,
                            quantities |-> qty,
                            max_trade_qty |->
                                _calculate_max_quantity(side[1], price[1], qty[1],
                                    side[2], price[2], qty[2], side[3], price[3], qty[3]),
                            timestamp_us |-> timestamp])

\* the engine's detector is built over these triangles, with the default
\* threshold and the default cap
_triangles == <<PathBTCETH, PathETHBTC>>

_min_profit_threshold == Rat(1, 2000)

_max_opportunities == 10

\* _build_symbol_index, read for one symbol
_triangles_by_symbol(triangles, symbol) ==
    SelectSeq(triangles, LAMBDA t : symbol \in symbols(t))

TriangleIds == {_triangles[i].id : i \in 1..Len(_triangles)}

DetectorStats(total_scans, opportunities_found) ==
    [total_scans |-> total_scans, opportunities_found |-> opportunities_found]

\* OpportunityDetector.__init__; _last_opportunity_time.get(id, 0) is read as
\* a map that holds 0 for a triangle never emitted
OpportunityDetector(calculator, triangles, max_opportunities_per_scan) ==
    [_calculator |-> calculator,
     _triangles |-> triangles,
     _max_opportunities |-> max_opportunities_per_scan,
     _callbacks |-> <<>>,
     _stats |-> DetectorStats(0, 0),
     _last_opportunity_time |-> [t \in {triangles[i].id : i \in 1..Len(triangles)} |-> 0]]

\* OpportunityDetector.register_callback
register_opportunity_callback(d, callback) ==
    [d EXCEPT !._callbacks = Append(@, callback)]

\* one call of a callback with an opportunity
Delivery(callback, index, opp) ==
    [callback |-> callback, index |-> index, opportunity |-> opp.path.id]

\* a notification loop without the try/except: the first raising callback
\* ends it and the exception leaves the loop
_notify_callbacks_unguarded(callbacks, opp) ==
    LET raising == {i \in 1..Len(callbacks) : raises(callbacks[i])}
        last == IF raising = {} THEN Len(callbacks)
                ELSE CHOOSE i \in raising : \A j \in raising : i <= j
    IN  [delivered |-> [i \in 1..last |-> Delivery(callbacks[i], i, opp)],
         raised |-> raising # {}]

\* _notify_callbacks: every callback is called, an Exception of one is logged
_notify_callbacks(callbacks, opp) ==
    [delivered |-> [i \in 1..Len(callbacks) |-> Delivery(callbacks[i], i, opp)],
     raised |-> FALSE]

\* a detector that never holds a triangle back
in_cooldown_never(last_time, timestamp) == FALSE

\* on_price_update, lines 153-155
in_cooldown(last_time, timestamp) == timestamp - last_time < COOLDOWN_US

is_emitted(opp) ==
    /\ opp # None
    /\ GeRat(opp[1].profit_pct,
             Norm(Rat(_min_profit_threshold.n * 100, _min_profit_threshold.d)))

\* what a scan has gathered: the opportunities appended, in the order their
\* callbacks were notified, the calls made to the callbacks, and whether an
\* exception left the loop
Found(d, opps, delivered, raised) ==
    [detector |-> d, opportunities |-> opps, delivered |-> delivered, raised |-> raised]

\* a loop that reads the cap before it appends
RECURSIVE scan_from_cap_first(_, _, _, _, _, _)
scan_from_cap_first(d, found, triangles, i, cache, timestamp) ==
    IF i > Len(triangles) THEN Found(d, found.opportunities, found.delivered, FALSE)
    ELSE LET triangle == triangles[i]
             opp == calculate_opportunity(d._calculator, triangle, cache, timestamp)
         IN  IF in_cooldown(d._last_opportunity_time[triangle.id], timestamp)
             THEN scan_from_cap_first(d, found, triangles, i + 1, cache, timestamp)
             ELSE IF ~has_all_symbols(cache, symbols(triangle))
             THEN scan_from_cap_first(d, found, triangles, i + 1, cache, timestamp)
             ELSE IF ~is_emitted(opp)
             THEN scan_from_cap_first(d, found, triangles, i + 1, cache, timestamp)
             ELSE LET d1 == [d EXCEPT !._last_opportunity_time[triangle.id] = timestamp,
                                      !._stats.opportunities_found = @ + 1]
                      opps1 == Append(found.opportunities, opp[1])
                      notified == _notify_callbacks(d._callbacks, opp[1])
                      delivered1 == found.delivered \o notified.delivered
                  IN  IF notified.raised THEN Found(d1, opps1, delivered1, TRUE)
                      ELSE IF Len(opps1) > d._max_opportunities
                      THEN Found(d1, opps1, delivered1, FALSE)
                      ELSE scan_from_cap_first(d1, Found(d1, opps1, delivered1, FALSE),
                                               triangles, i + 1, cache, timestamp)

\* the loop of on_price_update over triangles[i..]
RECURSIVE scan_from(_, _, _, _, _, _)
scan_from(d, found, triangles, i, cache, timestamp) ==
    IF i > Len(triangles) THEN Found(d, found.opportunities, found.delivered, FALSE)
    ELSE LET triangle == triangles[i]
             opp == calculate_opportunity(d._calculator, triangle, cache, timestamp)
         IN  IF in_cooldown(d._last_opportunity_time[triangle.id], timestamp)
             THEN scan_from(d, found, triangles, i + 1, cache, timestamp)
             ELSE IF ~has_all_symbols(cache, symbols(triangle))
             THEN scan_from(d, found, triangles, i + 1, cache, timestamp)
             ELSE IF ~is_emitted(opp)
             THEN scan_from(d, found, triangles, i + 1, cache, timestamp)
             ELSE LET d1 == [d EXCEPT !._last_opportunity_time[triangle.id] = timestamp,
                                      !._stats.opportunities_found = @ + 1]
                      opps1 == Append(found.opportunities, opp[1])
                      notified == _notify_callbacks(d._callbacks, opp[1])
                      delivered1 == found.delivered \o notified.delivered
                  IN  IF notified.raised THEN Found(d1, opps1, delivered1, TRUE)
                      ELSE IF Len(opps1) >= d._max_opportunities
                      THEN Found(d1, opps1, delivered1, FALSE)
                      ELSE scan_from(d1, Found(d1, opps1, delivered1, FALSE),
                                     triangles, i + 1, cache, timestamp)

\* list.sort(key=profit_pct, reverse=True): stable, highest profit first
RECURSIVE sort_by_profit(_)
sort_by_profit(opps) ==
    IF Len(opps) <= 1 THEN opps
    ELSE LET sorted == sort_by_profit(SubSeq(opps, 1, Len(opps) - 1))
             x == opps[Len(opps)]
             before == SelectSeq(sorted, LAMBDA o : GeRat(o.profit_pct, x.profit_pct))
             after == SelectSeq(sorted, LAMBDA o : ~GeRat(o.profit_pct, x.profit_pct))
         IN  before \o <<x>> \o after

\* what a call of the detector did: the detector afterwards, the
\* opportunities whose callbacks were notified, the calls made to the
\* callbacks, the list returned, and whether the call ended by an exception
on_price_update(d, cache, bbo, timestamp) ==
    LET d0 == [d EXCEPT !._stats.total_scans = @ + 1]
        triangles == _triangles_by_symbol(d._triangles, bbo.symbol)
        scanned == scan_from(d0, Found(d0, <<>>, <<>>, FALSE), triangles, 1, cache,
                             timestamp)
    IN  IF triangles = <<>>
        THEN [detector |-> d0, notified |-> <<>>, delivered |-> <<>>,
              returned |-> <<>>, raised |-> FALSE]
        ELSE [detector |-> scanned.detector,
              notified |-> scanned.opportunities,
              delivered |-> scanned.delivered,
              returned |-> IF scanned.raised THEN <<>>
                           ELSE sort_by_profit(scanned.opportunities),
              raised |-> scanned.raised]

\* the loop of scan_all over triangles[i..]: no cooldown, no notification
RECURSIVE scan_all_from(_, _, _, _, _, _)
scan_all_from(d, opps, triangles, i, cache, timestamp) ==
    IF i > Len(triangles) THEN [detector |-> d, opportunities |-> opps]
    ELSE LET triangle == triangles[i]
             opp == calculate_opportunity(d._calculator, triangle, cache, timestamp)
         IN  IF ~has_all_symbols(cache, symbols(triangle))
             THEN scan_all_from(d, opps, triangles, i + 1, cache, timestamp)
             ELSE IF ~is_emitted(opp)
             THEN scan_all_from(d, opps, triangles, i + 1, cache, timestamp)
             ELSE scan_all_from([d EXCEPT !._stats.opportunities_found = @ + 1],
                                Append(opps, opp[1]), triangles, i + 1, cache, timestamp)

\* opportunities[:n] for n >= 0
head(list, n) == SubSeq(list, 1, min(Len(list), n))

scan_all(d, cache, timestamp) ==
    LET d0 == [d EXCEPT !._stats.total_scans = @ + 1]
        scanned == scan_all_from(d0, <<>>, d._triangles, 1, cache, timestamp)
    IN  [detector |-> scanned.detector,
         notified |-> <<>>,
         delivered |-> <<>>,
         returned |-> head(sort_by_profit(scanned.opportunities), d._max_opportunities),
         raised |-> FALSE]

PriceTick(bbo, timestamp, returned) ==
    [bbo |-> bbo, timestamp |-> timestamp, returned |-> returned]

MaxPriceUpdates == 4   \* ticks delivered to the detector
MaxElapsedMs == 110    \* the detector's clock runs to StartUs + MaxElapsedMs ms

TickGapsUs == {10000, 90000}

DetectorPrices == {1, 2}

DetectorInit ==
    /\ detector = OpportunityDetector(_calculator, _triangles, _max_opportunities)
    /\ emits = [t \in TriangleIds |-> <<>>]
    /\ timestamp_us = StartUs
    /\ prev_tick = None
    /\ last_tick = None

\* ArbitrageEngine.__init__: not running, no client yet, nothing scheduled
EngineInit ==
    /\ _running = FALSE
    /\ shutdown_pc = "none"
    /\ client_session = "none"
    /\ execution_task = None
    /\ recorded = 0

\* WebSocketConnection.__init__ (market/websocket.py 58-85)
MIN_RECONNECT_DELAY == 1

MAX_RECONNECT_DELAY == 30

RECONNECT_MULTIPLIER == 2

WebSocketConnection(st, delay, running, count) ==
    [_state |-> st, _reconnect_delay |-> delay, _running |-> running,
     _message_count |-> count]

WsInit ==
    /\ connection = WebSocketConnection("DISCONNECTED", MIN_RECONNECT_DELAY, FALSE, 0)
    /\ run_pc = "created"
    /\ last_msg = None
    /\ slept = None
    /\ attempts = 0
    /\ ticker_updates = 0
    /\ ws_log = None
    /\ stop_pc = "idle"

\* SymbolManager.__init__ and TriangleDiscovery.__init__
GraphInit ==
    /\ exchange_symbols = <<>>
    /\ _graph = <<>>
    /\ found_triangles = <<>>

\* the components that take no part in a specification stay as constructed
\* one execute call of a task: where it stands, the opportunity it was given,
\* the calls it made on the risk manager and the status of its result
Execution(at, opp, made, status) ==
    [pc |-> at, opportunity |-> opp, calls |-> made, status |-> status]

MaxConcurrent == 3   \* tasks awaiting execute() on the one executor

ExecutionIds == 1..MaxConcurrent

ConcurrentInit == executions = [e \in ExecutionIds |-> Execution("idle", None, <<>>, "")]

OthersIdle ==
    /\ LimiterInit
    /\ BookInit
    /\ DetectorInit
    /\ EngineInit
    /\ WsInit
    /\ GraphInit
    /\ manual_halt = FALSE
    /\ ConcurrentInit

Ret(op, passed, reason, adjusted_size, size) ==
    [op |-> op, passed |-> passed, reason |-> reason,
     adjusted_size |-> adjusted_size, trade_size |-> size]

Called(op) == Ret(op, TRUE, <<>>, None, 0)

BreachDay(s) == IF loss_limit_breached(s) THEN today ELSE breach_day

InitRisk ==
    /\ limits \in {RiskLimits(1, 0), RiskLimits(2, 2)}
    /\ today = 1
    /\ now_ms = limits.min_time_between_trades_ms
    /\ state = RiskState(today)
    /\ balance = 64
    /\ ret = Called("init")
    /\ breach_day = 0
    /\ seen_day = today
    /\ config = ExecutorConfig(FALSE, TRUE)
    /\ ExecutorIdle
    /\ OthersIdle

UpdateBalance ==
    /\ \E b \in Balances : balance' = b
    /\ ret' = Called("update_balance")
    /\ seen_day' = today
    /\ UNCHANGED <<state, limits, today, now_ms, breach_day>>
    /\ UNCHANGED execVars
    /\ UNCHANGED otherVars

CheckTrade ==
    \E net \in NetReturns, size \in TradeSizes :
        LET r == check_trade(state, [net_return |-> net], size, today, now_ms)
        IN  /\ state' = r.state
            /\ ret' = Ret("check_trade", r.result.passed, r.result.reason,
                          r.result.adjusted_size, size)
            /\ seen_day' = today
            /\ UNCHANGED <<balance, limits, today, now_ms, breach_day>>
            /\ UNCHANGED execVars
            /\ UNCHANGED otherVars
    /\ UNCHANGED otherVars

RecordTradeStart ==
    /\ state.open_positions < MaxOpen
    /\ state' = record_trade_start(state, now_ms)
    /\ ret' = Called("record_trade_start")
    /\ seen_day' = today
    /\ UNCHANGED <<balance, limits, today, now_ms, breach_day>>
    /\ UNCHANGED execVars
    /\ UNCHANGED otherVars

RecordTradeComplete ==
    /\ state.daily_trades < MaxTrades
    /\ \E pnl \in Pnls : state' = record_trade_complete(state, pnl)
    /\ breach_day' = BreachDay(state')
    /\ ret' = Called("record_trade_complete")
    /\ seen_day' = today
    /\ UNCHANGED <<balance, limits, today, now_ms>>
    /\ UNCHANGED execVars
    /\ UNCHANGED otherVars

RecordTradeFailed ==
    /\ state' = record_trade_failed(state)
    /\ ret' = Called("record_trade_failed")
    /\ seen_day' = today
    /\ UNCHANGED <<balance, limits, today, now_ms, breach_day>>
    /\ UNCHANGED execVars
    /\ UNCHANGED otherVars

ForceHalt ==
    /\ \E reason \in HaltReasons : state' = force_halt(state, reason)
    /\ ret' = Called("force_halt")
    /\ seen_day' = today
    /\ manual_halt' = TRUE
    /\ UNCHANGED <<balance, limits, today, now_ms, breach_day>>
    /\ UNCHANGED execVars
    /\ UNCHANGED componentVars

Resume ==
    /\ state' = resume(state).state
    /\ ret' = Ret("resume", resume(state).result, <<>>, None, 0)
    /\ seen_day' = today
    /\ manual_halt' = (manual_halt /\ ~resume(state).result)
    /\ UNCHANGED <<balance, limits, today, now_ms, breach_day>>
    /\ UNCHANGED execVars
    /\ UNCHANGED componentVars

Tick ==
    /\ now_ms < limits.min_time_between_trades_ms + MaxTime
    /\ now_ms' = now_ms + 1
    /\ ret' = Called("clock")
    /\ UNCHANGED <<state, balance, limits, today, breach_day, seen_day>>
    /\ UNCHANGED execVars
    /\ UNCHANGED otherVars

NewDay ==
    /\ today < MaxDay
    /\ today' = today + 1
    /\ ret' = Called("clock")
    /\ UNCHANGED <<state, balance, limits, now_ms, breach_day, seen_day>>
    /\ UNCHANGED execVars
    /\ UNCHANGED otherVars

NextRisk ==
    \/ UpdateBalance
    \/ CheckTrade
    \/ RecordTradeStart
    \/ RecordTradeComplete
    \/ RecordTradeFailed
    \/ ForceHalt
    \/ Resume
    \/ Tick
    \/ NewDay

SpecRisk == InitRisk /\ [][NextRisk]_vars

(***************************************************************************)
(* Claims about the risk manager (checked under SpecRisk).                 *)
(***************************************************************************)

(* C2: check_trade returns passed only if, after the day-rollover step,   *)
(* none of these holds: halted; daily_pnl <= -daily_loss_limit;            *)
(* daily_trades >= max_daily_trades; open_positions >=                     *)
(* max_concurrent_positions; now - last_trade_time_ms <                    *)
(* min_time_between_trades_ms.  If any of them holds the call returns      *)
(* rejected with a (non-empty) reason.                                     *)
C2_CheckTradeGate ==
    ret.op = "check_trade" =>
        LET any == \/ state.is_halted
                   \/ state.daily_pnl <= -limits.daily_loss_limit
                   \/ state.daily_trades >= limits.max_daily_trades
                   \/ state.open_positions >= limits.max_concurrent_positions
                   \/ now_ms - state.last_trade_time_ms
                          < limits.min_time_between_trades_ms
        IN  /\ ret.passed => ~any
            /\ any => (~ret.passed /\ ret.reason # <<>>)

\* a check_trade rejected by the last of the five conditions alone
C2_Witness ==
    /\ ret.op = "check_trade"
    /\ ~ret.passed
    /\ startswith(ret.reason, "Cooldown:")
    /\ state.open_positions > 0
    /\ ~state.is_halted

(* C3 (as claimed): after a record_trade_complete that leaves daily_pnl   *)
(* <= -daily_loss_limit the manager is halted with a reason containing    *)
(* "loss limit"; every later check_trade on the same calendar day is       *)
(* rejected; resume() returns false and leaves the manager halted while    *)
(* the limit is still breached.                                            *)
C3_HaltedOnBreach ==
    (ret.op = "record_trade_complete"
        /\ state.daily_pnl <= -limits.daily_loss_limit)
    => (state.is_halted /\ contains(state.halt_reason, "loss limit"))

C3_ResumeRefused ==
    (ret.op = "resume" /\ state.daily_pnl <= -limits.daily_loss_limit)
    => (ret.passed = FALSE /\ state.is_halted)

C3_Original ==
    /\ C3_HaltedOnBreach
    /\ C3_ResumeRefused
    /\ (ret.op = "check_trade" /\ breach_day = today) => ~ret.passed

(* C3 (amended): after a record_trade_complete that leaves daily_pnl      *)
(* <= -daily_loss_limit the manager is halted with a reason containing    *)
(* "loss limit"; every later check_trade is rejected for as long as the    *)
(* halt stands, and the halt is lifted only by a resume() that returns     *)
(* true (possible once daily_pnl is above -daily_loss_limit again) or by   *)
(* the daily reset that check_trade performs when today's date differs     *)
(* from state.current_date; resume() returns false and leaves the manager  *)
(* halted while the limit is still breached.                               *)
C3_LossHalt ==
    /\ [](C3_HaltedOnBreach /\ C3_ResumeRefused)
    /\ [][/\ (state.is_halted /\ ret'.op = "check_trade"
                /\ state.current_date = today) => ~ret'.passed
          /\ (state.is_halted /\ ~state'.is_halted) =>
                \/ /\ ret'.op = "resume"
                   /\ ret'.passed
                   /\ state.daily_pnl > -limits.daily_loss_limit
                \/ /\ ret'.op = "check_trade"
                   /\ state.current_date # today
                   /\ startswith(state.halt_reason, "Daily")]_vars

\* a check_trade made on the day of the breach and rejected by the loss halt
C3_Witness ==
    /\ ret.op = "check_trade"
    /\ breach_day = today
    /\ ~ret.passed
    /\ state.is_halted
    /\ contains(state.halt_reason, "loss limit")

(* C4 (as claimed): for every sequence of calls open_positions >= 0 at    *)
(* all times and daily_trades never decreases between two moments of the   *)
(* same calendar day.  Read in the claim's favour: the moments are those   *)
(* at or after the manager's first call of that day, so that a reset made  *)
(* by the day's first call is not counted as a decrease.                   *)
C4_Original ==
    /\ [](state.open_positions >= 0)
    /\ [][(today' = today /\ seen_day = today)
            => state'.daily_trades >= state.daily_trades]_vars

(* C4 (amended): for every sequence of calls open_positions >= 0 at all   *)
(* times and daily_trades never decreases while state.current_date stays   *)
(* the same: it drops only in the daily reset that check_trade performs    *)
(* on its first call after the date has changed, whenever that is.         *)
C4_Counters ==
    /\ [](state.open_positions >= 0)
    /\ [][state'.current_date = state.current_date
            => state'.daily_trades >= state.daily_trades]_vars

\* after a daily reset trades are counted again, and a record_trade_failed
\* has left open_positions at 0
C4_Witness ==
    /\ state.current_date > 1
    /\ state.daily_trades > 0
    /\ ret.op = "record_trade_failed"
    /\ state.open_positions = 0

(* C5: whenever check_trade passes, min_trade_size <= adjusted_size <=    *)
(* min(max_trade_size, balance * max_position_pct); when clamping the      *)
(* requested size to that upper bound leaves a value below min_trade_size  *)
(* the trade is rejected.                                                  *)
C5_AdjustedSize ==
    ret.op = "check_trade" =>
        LET pct == limits.max_position_pct
            lo == limits.min_trade_size
        IN  /\ ret.passed =>
                /\ ret.adjusted_size # <<>>
                /\ lo <= ret.adjusted_size[1]
                /\ ret.adjusted_size[1] <= limits.max_trade_size
                /\ ret.adjusted_size[1] * pct.d <= balance * pct.n
            /\ (\/ ret.trade_size < lo
                \/ limits.max_trade_size < lo
                \/ balance * pct.n < lo * pct.d) => ~ret.passed

\* a passed check whose size was clamped to the upper bound
C5_Witness ==
    /\ ret.op = "check_trade"
    /\ ret.passed
    /\ ret.adjusted_size[1] < ret.trade_size

(* C23: the first check_trade of a new calendar date resets daily_pnl and  *)
(* daily_trades to zero and lifts a halt only if its reason begins with    *)
(* "Daily"; any other halt stays in force with its reason, and             *)
(* open_positions and last_trade_time_ms are unchanged.                    *)
C23_DailyReset ==
    [][(ret'.op = "check_trade" /\ state.current_date # today) =>
            /\ state'.daily_pnl = 0
            /\ state'.daily_trades = 0
            /\ state'.current_date = today
            /\ state'.open_positions = state.open_positions
            /\ state'.last_trade_time_ms = state.last_trade_time_ms
            /\ startswith(state.halt_reason, "Daily") =>
                    (~state'.is_halted /\ state'.halt_reason = <<>>)
            /\ (state.is_halted /\ ~startswith(state.halt_reason, "Daily")) =>
                    (state'.is_halted /\ state'.halt_reason = state.halt_reason)]_vars

\* a loss halt of day 1 was lifted by a check_trade on day 2
C23_Witness ==
    /\ ret.op = "check_trade"
    /\ breach_day = 1
    /\ state.current_date = 2
    /\ ~state.is_halted
    /\ state.daily_pnl = 0
    /\ state.daily_trades = 0

\* C24 (as claimed): check_trade rejects a size below min_trade_size, and a
\* passed check of a size above max_trade_size returns max_trade_size
C24_Original ==
    ret.op = "check_trade" =>
        /\ ret.trade_size < limits.min_trade_size => ~ret.passed
        /\ (ret.passed /\ ret.trade_size > limits.max_trade_size) =>
                ret.adjusted_size = Some(limits.max_trade_size)

(* C24 (amended): check_trade rejects a size below min_trade_size; a       *)
(* passed check returns the size itself when it is at most                 *)
(* min(max_trade_size, balance * max_position_pct) and that minimum        *)
(* otherwise, which is max_trade_size only when the balance allows it.     *)
C24_SizeLimits ==
    ret.op = "check_trade" =>
        /\ ret.trade_size < limits.min_trade_size => ~ret.passed
        /\ ret.passed =>
                ret.adjusted_size = Some(min(ret.trade_size, get_max_trade_size))

\* a passed check of a size above max_trade_size, clamped by the balance
C24_Witness ==
    /\ ret.op = "check_trade"
    /\ ret.passed
    /\ ret.trade_size > limits.max_trade_size
    /\ ret.adjusted_size[1] < limits.max_trade_size

(***************************************************************************)
(* TriangleExecutor.execute as a process (Spec): one action per stretch of *)
(* code between two awaits.  The risk manager is the one above; the        *)
(* operator may halt and resume it and the calendar may turn while an      *)
(* execution is in flight.                                                 *)
(***************************************************************************)
Configs ==
    {ExecutorConfig(FALSE, TRUE), ExecutorConfig(FALSE, FALSE),
     ExecutorConfig(TRUE, FALSE)}

\* `if not risk_check:` with RiskCheckResult.__bool__
risk_check_ignored(rc) == FALSE

risk_check_failed(rc) == ~rc.passed

\* asyncio.gather(*tasks, return_exceptions=True) returns once every task has
gather_any(t) == \E i \in 1..3 : t[i].st = "done"

gather_done(t) == \A i \in 1..3 : t[i].st = "done"

market_price(opp, symbol) ==
    opp.prices[CHOOSE i \in 1..3 : opp.path.legs[i].symbol = symbol]

InitExec ==
    /\ limits = RiskLimits(1, 0)
    /\ today = 1
    /\ now_ms = limits.min_time_between_trades_ms
    /\ state = RiskState(today)
    /\ balance = 64
    /\ ret = Called("init")
    /\ breach_day = 0
    /\ seen_day = today
    /\ config \in Configs
    /\ ExecutorIdle
    /\ OthersIdle

\* execute, lines 92-111: count, gate, and either return the failed result
\* or record the start and enter _execute_dry_run / _execute_live
execute(opp) ==
    /\ pc \in {"idle", "done"}
    /\ stats.total < MaxExecutions
    /\ LET rc == check_trade(state, opp, opp.max_trade_qty, today, now_ms)
           adjusted == rc.result.adjusted_size
       IN  /\ opportunity' = Some(opp)
           /\ risk_check' = Some(rc.result)
           /\ IF risk_check_failed(rc.result) THEN
                   /\ state' = rc.state
                   /\ trade_size' = opp.max_trade_qty
                   /\ result' = Some(_create_failed_result(opp,
                                    <<"Risk check failed:">> \o rc.result.reason))
                   /\ calls' = <<"check_trade">>
                   /\ pc' = "done"
              ELSE
                   /\ state' = record_trade_start(rc.state, now_ms)
                   /\ trade_size' = IF adjusted # None /\ adjusted[1] # 0
                                    THEN adjusted[1] ELSE opp.max_trade_qty
                   /\ result' = None
                   /\ calls' = <<"check_trade", "record_trade_start">>
                   /\ pc' = IF config.dry_run THEN "dry_run" ELSE "gather"
    /\ stats' = [stats EXCEPT !.total = @ + 1]
    /\ tasks' = NoTasks
    /\ orders' = <<>>
    /\ holdings' = <<>>
    /\ liquidation' = Liquidation(0, 0, Rat(0, 1), <<>>)
    /\ recovery_result' = None
    /\ seen_day' = today
    /\ UNCHANGED <<balance, limits, today, now_ms, ret, breach_day, config>>

\* a caller awaits executor.execute(opportunity)
Execute ==
    /\ \E opp \in Opportunities : execute(opp)
    /\ UNCHANGED otherVars

\* execute, lines 119-133, on the result of _execute_dry_run/_execute_live:
\* record the outcome and, when it is no success, run analyze_and_recover up
\* to the first liquidation order it awaits
Finish(res) ==
    /\ result' = Some(res)
    /\ seen_day' = today
    /\ IF is_success(res) THEN
            /\ stats' = [stats EXCEPT !.successful = @ + 1]
            /\ state' = record_trade_complete(state, res.total_profit)
            /\ breach_day' = BreachDay(state')
            /\ calls' = Append(calls, "record_trade_complete")
            /\ pc' = "done"
            /\ UNCHANGED <<orders, holdings, liquidation, recovery_result>>
       ELSE
            \E h \in {_analyze_holdings(res)} :
            \E j \in {next_liquidation(h, 1)} :
            \E liq \in {Liquidation(j, 0, Rat(0, 1), <<>>)} :
                /\ stats' = [stats EXCEPT !.failed = @ + 1]
                /\ state' = record_trade_failed(state)
                /\ breach_day' = breach_day
                /\ calls' = calls \o <<"record_trade_failed", "analyze_and_recover">>
                /\ holdings' = h
                /\ liquidation' = liq
                /\ IF j <= Len(h) THEN
                        /\ orders' = Append(orders,
                                        _liquidate_asset(h[j].asset, h[j].amount)[1])
                        /\ recovery_result' = None
                        /\ pc' = "liquidate"
                   ELSE
                        /\ orders' = orders
                        /\ recovery_result' =
                               IF h = <<>> THEN None ELSE Some(RecoveryResult(h, liq))
                        /\ pc' = "done"

\* _execute_dry_run after its sleep, then the rest of execute
DryRunDone ==
    /\ pc = "dry_run"
    /\ \E res \in {_execute_dry_run(opportunity[1], trade_size)} : Finish(res)
    /\ UNCHANGED <<balance, limits, today, now_ms, ret, config, opportunity,
                   risk_check, trade_size, tasks>>
    /\ UNCHANGED otherVars

\* task i of the gather runs _place_leg_order up to the client call; the
\* event loop starts the tasks in the order gather was given them
LegDispatch(i) ==
    /\ pc = "gather"
    /\ tasks[i].st = "pending"
    /\ \A j \in 1..(i - 1) : tasks[j].st # "pending"
    /\ orders' = Append(orders, _place_leg_order(opportunity[1], trade_size, i))
    /\ tasks' = [tasks EXCEPT ![i].st = "sent"]
    /\ UNCHANGED riskVars
    /\ UNCHANGED otherVars
    /\ UNCHANGED <<config, stats, pc, opportunity, risk_check, trade_size, result,
                   calls, holdings, liquidation, recovery_result>>

\* the client call of task i returns a response or raises; _place_leg_order
\* hands either back as the task's result
LegResolve(i) ==
    /\ pc = "gather"
    /\ tasks[i].st = "sent"
    /\ \E r \in Responses(_place_leg_order(opportunity[1], trade_size, i),
                          opportunity[1].prices[i]) :
            tasks' = [tasks EXCEPT ![i] = Task("done", r)]
    /\ UNCHANGED riskVars
    /\ UNCHANGED otherVars
    /\ UNCHANGED <<config, stats, pc, opportunity, risk_check, trade_size, result,
                   orders, calls, holdings, liquidation, recovery_result>>

\* _execute_live after the gather, then the rest of execute
GatherDone ==
    /\ pc = "gather"
    /\ gather_done(tasks)
    /\ \E leg_results \in {_process_order_results(opportunity[1].path.legs,
                                  [i \in 1..3 |-> tasks[i].outcome])} :
       \E pnl \in {_calculate_pnl(leg_results)} :
       \E res \in {ExecutionResult(opportunity[1], _determine_status(leg_results),
                                   leg_results, pnl.profit, pnl.total_commission,
                                   <<>>)} :
            Finish(res)
    /\ UNCHANGED <<balance, limits, today, now_ms, ret, config, opportunity,
                   risk_check, trade_size, tasks>>
    /\ UNCHANGED otherVars

\* _liquidate_asset after its await and _liquidate_holdings up to the next
\* order or to its return; analyze_and_recover and execute then return
LiquidationResolve ==
    /\ pc = "liquidate"
    /\ LET h == holdings
           i == liquidation.index
           order == _liquidate_asset(h[i].asset, h[i].amount)[1]
       IN  \E r \in Responses(order, market_price(opportunity[1], order.symbol)) :
            LET liq == IF r.kind = "exception"
                       THEN [liquidation EXCEPT !.errors = Append(@, h[i].asset)]
                       ELSE IF r.status = "FILLED"
                       THEN [liquidation EXCEPT
                                !.total_recovered = @ + r.cummulative_quote_qty,
                                !.total_cost = AddRat(@, total_commission(r))]
                       ELSE liquidation
                j == next_liquidation(h, i + 1)
            IN  /\ liquidation' = [liq EXCEPT !.index = j]
                /\ IF j <= Len(h) THEN
                        /\ orders' = Append(orders,
                                        _liquidate_asset(h[j].asset, h[j].amount)[1])
                        /\ UNCHANGED <<recovery_result, pc>>
                   ELSE
                        /\ recovery_result' = Some(RecoveryResult(h, liq))
                        /\ pc' = "done"
                        /\ orders' = orders
    /\ UNCHANGED riskVars
    /\ UNCHANGED otherVars
    /\ UNCHANGED <<config, stats, opportunity, risk_check, trade_size, tasks,
                   result, calls, holdings>>

Next ==
    \/ Execute
    \/ DryRunDone
    \/ \E i \in 1..3 : LegDispatch(i)
    \/ \E i \in 1..3 : LegResolve(i)
    \/ GatherDone
    \/ LiquidationResolve
    \/ ForceHalt
    \/ Resume

Spec == InitExec /\ [][Next]_vars

(***************************************************************************)
(* Claims about the executor and recovery (checked under Spec).            *)
(***************************************************************************)
Gated == risk_check # None /\ risk_check[1].passed

Live == ~config.dry_run

InCalls(name) == \E k \in 1..Len(calls) : calls[k] = name

(* C1: when check_trade rejects the opportunity, execute returns an       *)
(* ExecutionResult with status FAILED, having made no exchange client      *)
(* call, no record_trade_start call and no recovery call: check_trade is   *)
(* the only call it made and no leg task exists.                           *)
C1_RejectedNoSideEffects ==
    (risk_check # None /\ ~risk_check[1].passed) =>
        /\ pc = "done"
        /\ result # None
        /\ result[1].status = "FAILED"
        /\ orders = <<>>
        /\ calls = <<"check_trade">>
        /\ tasks = NoTasks
        /\ recovery_result = None

C1_Witness ==
    /\ pc = "done"
    /\ risk_check # None
    /\ ~risk_check[1].passed
    /\ startswith(risk_check[1].reason, "Trading halted:")
    /\ result[1].status = "FAILED"
    /\ stats = Stats(2, 0, 1)

(* C6: in a live execution a result is built only once every one of the   *)
(* three leg tasks has been dispatched and has produced its outcome, and   *)
(* the result carries exactly three LegResults, the i-th being leg i with  *)
(* leg i's own outcome, whatever the other legs did (a rejected or raising *)
(* leg takes no other leg's order or outcome away).                        *)
C6_AllLegsCollected ==
    (Live /\ Gated /\ result # None) =>
        /\ Len(result[1].legs) = 3
        /\ Len(orders) >= 3
        /\ \A i \in 1..3 :
            /\ tasks[i].st = "done"
            /\ tasks[i].outcome.kind # "none"
            /\ orders[i] = _place_leg_order(opportunity[1], trade_size, i)
            /\ result[1].legs[i].leg = opportunity[1].path.legs[i]
            /\ result[1].legs[i] =
                   _process_order_result(opportunity[1].path.legs[i], tasks[i].outcome)

C6_Witness ==
    /\ Live
    /\ pc = "done"
    /\ result # None
    /\ Len(result[1].legs) = 3
    /\ result[1].legs[1].error_message = <<"exchange error">>
    /\ result[1].legs[2].status = "REJECTED"
    /\ result[1].legs[3].status = "FILLED"
    /\ Len(orders) >= 3

(* C7: in an execution that passed the gate, record_trade_start has been  *)
(* called before the step that dispatches any leg order, and the step that *)
(* calls record_trade_complete or record_trade_failed of a live execution  *)
(* starts with all three legs resolved.                                    *)
C7_RiskCallsOrdered ==
    /\ [][\A i \in 1..3 :
            (tasks[i].st = "pending" /\ tasks'[i].st # "pending")
                => (Gated /\ InCalls("record_trade_start"))]_vars
    /\ [][(/\ Live
           /\ Len(calls') > Len(calls)
           /\ calls'[Len(calls) + 1] \in {"record_trade_complete",
                                          "record_trade_failed"})
            => (/\ InCalls("record_trade_start")
                /\ \A i \in 1..3 : tasks[i].st = "done")]_vars

C7_Witness ==
    /\ Live
    /\ pc = "done"
    /\ calls = <<"check_trade", "record_trade_start", "record_trade_complete">>
    /\ \A i \in 1..3 : tasks[i].st = "done"
    /\ state.daily_trades = 2

(* C8: the status of every execution result is SUCCESS iff all three of   *)
(* its legs are FILLED, FAILED iff none of its legs is FILLED and PARTIAL  *)
(* otherwise.                                                              *)
C8_StatusFromLegs ==
    result # None =>
        LET legs == result[1].legs
            n == Cardinality({i \in 1..Len(legs) : legs[i].status = "FILLED"})
        IN  /\ result[1].status \in {"SUCCESS", "FAILED", "PARTIAL"}
            /\ result[1].status = "SUCCESS" <=> (n = 3 /\ Len(legs) = 3)
            /\ result[1].status = "FAILED" <=> n = 0
            /\ result[1].status = "PARTIAL" <=> n \in {1, 2}

C8_Witness ==
    /\ Live
    /\ result # None
    /\ result[1].status = "PARTIAL"
    /\ result[1].legs[1].status = "FILLED"
    /\ result[1].legs[2].status = "FILLED"
    /\ result[1].legs[3].status = "PARTIALLY_FILLED"

(* C9 (as claimed): whenever a gated execution ends with a status other   *)
(* than SUCCESS, recovery has been invoked for it, and when recovery       *)
(* hands back its outcome the record that execute returns takes it up      *)
(* (the record changes; its status may become RECOVERED).                  *)
C9_RecoveryAttached ==
    /\ []((pc = "done" /\ Gated /\ result[1].status # "SUCCESS")
            => InCalls("analyze_and_recover"))
    /\ [][(pc = "liquidate" /\ pc' = "done" /\ recovery_result' # None)
            => result' # result]_vars

(* C10 (as claimed): when legs 1 and 2 fill and leg 3 is rejected the     *)
(* status is PARTIAL, recovery finds exactly one residual holding, in the  *)
(* output asset of leg 2, and places exactly one liquidation order, on     *)
(* the pair of that asset and the base currency.                           *)
C10_SingleResidual ==
    (/\ pc = "done"
     /\ Live
     /\ Gated
     /\ result[1].legs[1].status = "FILLED"
     /\ result[1].legs[2].status = "FILLED"
     /\ result[1].legs[3].status = "REJECTED")
    => /\ result[1].status = "PARTIAL"
       /\ Len(holdings) = 1
       /\ holdings[1].asset = opportunity[1].path.legs[2].to_asset
       /\ Len(orders) = 4
       /\ orders[4].symbol \in {<<holdings[1].asset, base_currency>>,
                                <<base_currency, holdings[1].asset>>}

\* the legs of the current live execution whose order the exchange answered
\* with one of the given statuses, and those whose order call raised
AnsweredWith(statuses) ==
    {i \in 1..3 : tasks[i].outcome.kind = "response"
                  /\ tasks[i].outcome.status \in statuses}

CallFailed == {i \in 1..3 : tasks[i].outcome.kind = "exception"}

C13_FailuresSurfaced ==
    \A r \in {recovery_result[j] : j \in 1..Len(recovery_result)} :
        (holdings # <<>> /\ r.recovered_amount = 0) =>
            (~r.success /\ r.error_message # <<>>)

(***************************************************************************)
(* One execute() call against a transport that may never answer            *)
(* (SpecTransport): the executor's own steps are taken whenever they are   *)
(* enabled; nothing obliges the exchange to answer an order.               *)
(***************************************************************************)
ExecuteOnce ==
    /\ stats.total = 0
    /\ Execute

NextTransport ==
    \/ ExecuteOnce
    \/ DryRunDone
    \/ \E i \in 1..3 : LegDispatch(i)
    \/ \E i \in 1..3 : LegResolve(i)
    \/ GatherDone
    \/ LiquidationResolve

SpecTransport ==
    /\ InitExec
    /\ [][NextTransport]_vars
    /\ WF_vars(DryRunDone)
    /\ WF_vars(\E i \in 1..3 : LegDispatch(i))
    /\ WF_vars(GatherDone)

(* C12 (as claimed): every leg dispatch is bounded by order_timeout_ms,   *)
(* so a leg whose order is never answered is eventually marked FAILED and  *)
(* a started execute() eventually returns, whatever the transport does.    *)
C12_DispatchBounded ==
    (\E i \in 1..3 : tasks[i].st = "sent") ~> (pc = "done")

(***************************************************************************)
(* The rate limiter under concurrent callers (SpecLimiter).                *)
(***************************************************************************)
\* everything but the component a specification drives, as constructed
EngineIdle ==
    /\ limits = RiskLimits(1, 0)
    /\ today = 1
    /\ now_ms = limits.min_time_between_trades_ms
    /\ state = RiskState(today)
    /\ balance = 64
    /\ ret = Called("init")
    /\ breach_day = 0
    /\ seen_day = today
    /\ config = ExecutorConfig(FALSE, TRUE)
    /\ ExecutorIdle

InitLimiter ==
    /\ EngineIdle
    /\ OthersIdle

Step(s) ==
    /\ limiter' = s.l
    /\ callers' = s.c

\* a task calls one of the limiter's four operations.  The try_ operations
\* run inline to their first suspension; acquire_request and acquire_order
\* hand their two acquire calls to asyncio.gather and suspend
Call(c, op, weight) ==
    /\ limiter_calls < MaxCalls
    /\ callers[c].st \in {"idle", "returned"}
    /\ \A k \in Buckets : callers[c].sub[k].phase \in {"none", "done"}
    /\ \E s0 \in {LimiterState(limiter,
                      [callers EXCEPT ![c] =
                          Caller("running", op, weight,
                                 [k \in Buckets |-> NoSub], None)])} :
       \E s1 \in {IF is_try(op)
                  THEN settle(enter(s0, c, first_bucket(op), "try_acquire", 1,
                                    timestamp_ms), c, timestamp_ms)
                  ELSE LimiterState(s0.l,
                          [s0.c EXCEPT
                              ![c].sub[first_bucket(op)] =
                                  Sub("ready", "acquire", 1, 0, FALSE, 0),
                              ![c].sub["_weight_bucket"] =
                                  Sub("ready", "acquire", weight, 0, FALSE, 0)])} :
            Step(s1)
    /\ limiter_calls' = limiter_calls + 1
    /\ UNCHANGED timestamp_ms
    /\ UNCHANGED notLimiterVars

LimiterCall(c) == \E op \in LimiterOps, weight \in Weights : Call(c, op, weight)

\* the event loop starts a gathered acquire; the per-second bucket's task was
\* created first and starts first
TaskStart(c, k) ==
    /\ callers[c].sub[k].phase = "ready"
    /\ k = "_weight_bucket" => callers[c].sub[first_bucket(callers[c].op)].phase # "ready"
    /\ \E s1 \in {settle(enter(LimiterState(limiter, callers), c, k, "acquire",
                               callers[c].sub[k].n, timestamp_ms),
                         c, timestamp_ms)} :
            Step(s1)
    /\ UNCHANGED <<timestamp_ms, limiter_calls>>
    /\ UNCHANGED notLimiterVars

\* a task that waited for a bucket's lock was handed it and runs on
LockGranted(c, k) ==
    /\ callers[c].sub[k].phase = "lockwait"
    /\ limiter[k].holder = c
    /\ \E s1 \in {settle(in_lock(LimiterState(limiter, callers), c, k, timestamp_ms),
                         c, timestamp_ms)} :
            Step(s1)
    /\ UNCHANGED <<timestamp_ms, limiter_calls>>
    /\ UNCHANGED notLimiterVars

\* asyncio.sleep(wait_seconds) of an acquire returns
SleepDone(c, k) ==
    /\ callers[c].sub[k].phase = "sleeping"
    /\ timestamp_ms >= callers[c].sub[k].wake
    /\ \E s1 \in {settle(wake_up(LimiterState(limiter, callers), c, k, timestamp_ms),
                         c, timestamp_ms)} :
            Step(s1)
    /\ UNCHANGED <<timestamp_ms, limiter_calls>>
    /\ UNCHANGED notLimiterVars

\* time passes
ClockTick ==
    /\ \/ timestamp_ms < MaxTicks * TickMs
       \/ \E c \in DOMAIN callers, k \in Buckets :
            /\ callers[c].sub[k].phase = "sleeping"
            /\ callers[c].sub[k].wake > timestamp_ms
    /\ timestamp_ms' = timestamp_ms + TickMs
    /\ UNCHANGED <<limiter, callers, limiter_calls>>
    /\ UNCHANGED notLimiterVars

NextLimiter ==
    \/ \E c \in Callers : LimiterCall(c)
    \/ \E c \in Callers, k \in Buckets : TaskStart(c, k)
    \/ \E c \in Callers, k \in Buckets : LockGranted(c, k)
    \/ \E c \in Callers, k \in Buckets : SleepDone(c, k)
    \/ ClockTick

SpecLimiter == InitLimiter /\ [][NextLimiter]_vars

\* the event loop runs every task that can run, and time passes
MaxFairCalls == 2  \* calls made on the limiter under SpecLimiterFair

LimiterCallFair(c) ==
    /\ limiter_calls < MaxFairCalls
    /\ LimiterCall(c)

NextLimiterFair ==
    \/ \E c \in Callers : LimiterCallFair(c)
    \/ \E c \in Callers, k \in Buckets : TaskStart(c, k)
    \/ \E c \in Callers, k \in Buckets : LockGranted(c, k)
    \/ \E c \in Callers, k \in Buckets : SleepDone(c, k)
    \/ ClockTick

SpecLimiterFair ==
    /\ InitLimiter
    /\ [][NextLimiterFair]_vars
    /\ WF_vars(\E c \in Callers, k \in Buckets : TaskStart(c, k))
    /\ WF_vars(\E c \in Callers, k \in Buckets : LockGranted(c, k))
    /\ WF_vars(\E c \in Callers, k \in Buckets : SleepDone(c, k))
    /\ WF_vars(ClockTick)

(* C14 (as claimed): every bucket holds 0 <= tokens <= capacity after      *)
(* every operation, for any request size and any interleaving.             *)
C14_TokensInRange ==
    \A k \in Buckets : limiter[k].tokens >= 0 /\ limiter[k].tokens <= limiter[k].capacity

\* caller c has an acquire(n) with n above the capacity under way on bucket k
Oversize(c, k) ==
    /\ callers[c].sub[k].kind = "acquire"
    /\ callers[c].sub[k].n > limiter[k].capacity

(* C15: an acquire(n) with n greater than the bucket's capacity, once      *)
(* called, eventually returns True.                                        *)
C15_OversizeAcquireReturns ==
    \A c \in Callers :
        (Oversize(c, "_weight_bucket")
            /\ callers[c].sub["_weight_bucket"].phase \in {"ready", "lockwait", "sleeping"})
        ~> (Oversize(c, "_weight_bucket")
            /\ callers[c].sub["_weight_bucket"].phase = "done"
            /\ callers[c].sub["_weight_bucket"].ok)

C15_Witness ==
    \E c \in Callers :
        /\ Oversize(c, "_weight_bucket")
        /\ callers[c].sub["_weight_bucket"].phase = "done"
        /\ callers[c].sub["_weight_bucket"].ok
        /\ callers[c].sub["_weight_bucket"].took > limiter["_weight_bucket"].capacity

(* C16 (as claimed): try_acquire never waits: no try_acquire call is ever  *)
(* suspended, even while another caller's acquire on the same bucket is    *)
(* sleeping.                                                               *)
C16_TryNeverWaits ==
    \A c \in Callers, k \in Buckets :
        ~(callers[c].sub[k].kind = "try_acquire" /\ callers[c].sub[k].phase = "lockwait")

(* C17: acquire_request(weight) and acquire_order(weight) have returned    *)
(* only when one token was taken from the request (order) bucket and       *)
(* weight tokens from the weight bucket.                                   *)
C17_BothAcquired ==
    \A c \in Callers :
        (callers[c].st = "returned" /\ ~is_try(callers[c].op)) =>
            /\ callers[c].sub[first_bucket(callers[c].op)].phase = "done"
            /\ callers[c].sub[first_bucket(callers[c].op)].took = 1
            /\ callers[c].sub["_weight_bucket"].phase = "done"
            /\ callers[c].sub["_weight_bucket"].took = callers[c].weight

C17_Witness ==
    \E c \in Callers :
        /\ callers[c].st = "returned"
        /\ callers[c].op = "acquire_order"
        /\ callers[c].weight = 5
        /\ callers[c].sub["_weight_bucket"].took = 5
        /\ limiter["_order_bucket"].tokens < limiter["_order_bucket"].capacity

(***************************************************************************)
(* The BBO cache under its callers (SpecOrderbook).                        *)
(***************************************************************************)
RegisterCallback(callback) ==
    /\ Len(_callbacks) < MaxCallbacks
    /\ _callbacks' = Append(_callbacks, callback)
    /\ last_call' = BookCall("register_callback", None, None, <<>>, FALSE)
    /\ UNCHANGED <<_cache, _update_count>>
    /\ UNCHANGED notBookVars

UnregisterCallback(callback) ==
    /\ _callbacks' = IF contains(_callbacks, callback)
                     THEN list_remove(_callbacks, callback) ELSE _callbacks
    /\ last_call' = BookCall("unregister_callback", None, None, <<>>, FALSE)
    /\ UNCHANGED <<_cache, _update_count>>
    /\ UNCHANGED notBookVars

\* update, lines 86-98: store, count, then call the callbacks one by one
Update(bbo) ==
    /\ _update_count < MaxUpdates
    /\ _cache' = store(_cache, bbo)
    /\ _update_count' = _update_count + 1
    /\ last_call' = BookCall("update", Some(bbo), _cache[bbo.symbol],
                             notify(_callbacks).notified, notify(_callbacks).raised)
    /\ UNCHANGED _callbacks
    /\ UNCHANGED notBookVars

Remove(symbol) ==
    /\ _cache' = [_cache EXCEPT ![symbol] = None]
    /\ last_call' = BookCall("remove", None, None, <<>>, FALSE)
    /\ UNCHANGED <<_callbacks, _update_count>>
    /\ UNCHANGED notBookVars

Clear ==
    /\ _cache' = EmptyCache
    /\ last_call' = BookCall("clear", None, None, <<>>, FALSE)
    /\ UNCHANGED <<_callbacks, _update_count>>
    /\ UNCHANGED notBookVars

InitOrderbook ==
    /\ EngineIdle
    /\ OthersIdle

NextOrderbook ==
    \/ \E callback \in CallbackNames : RegisterCallback(callback)
    \/ \E callback \in CallbackNames : UnregisterCallback(callback)
    \/ \E bbo \in BBOs : Update(bbo)
    \/ \E symbol \in BookSymbols : Remove(symbol)
    \/ Clear

SpecOrderbook == InitOrderbook /\ [][NextOrderbook]_vars

(* C18 (as claimed): update(bbo) calls every registered callback, in       *)
(* registration order, and no callback's exception leaves update: a        *)
(* raising callback is caught and the later callbacks still run.           *)
C18_CallbacksIsolated ==
    last_call.op = "update" =>
        (last_call.notified = _callbacks /\ ~last_call.raised)

(* C19: every update stores its BBO for the BBO's symbol whatever the      *)
(* update_id, leaves the other symbols alone and adds exactly one to the   *)
(* update counter; an update with the BBO already cached leaves the cache  *)
(* as it is; the counter never decreases.                                  *)
C19_UpdateStoresAndCounts ==
    [][/\ _update_count' >= _update_count
       /\ last_call'.op = "update" =>
            /\ _update_count' = _update_count + 1
            /\ _cache'[last_call'.bbo[1].symbol] = last_call'.bbo
            /\ \A s \in BookSymbols \ {last_call'.bbo[1].symbol} : _cache'[s] = _cache[s]
            /\ _cache[last_call'.bbo[1].symbol] = last_call'.bbo => _cache' = _cache]_vars

\* the same BBO was applied twice in a row, and before that a BBO with a
\* higher update_id was replaced by one with a lower
C19_Witness ==
    /\ last_call.op = "update"
    /\ last_call.replaced = last_call.bbo
    /\ _update_count >= 2
    /\ last_call.bbo[1].update_id = 1
    /\ _cache[last_call.bbo[1].symbol] = last_call.bbo

(***************************************************************************)
(* The tick path: orderbook update, engine callback, detector              *)
(* (SpecDetector).                                                         *)
(***************************************************************************)
\* Engine registers its _on_price_update with the orderbook at start-up
InitDetector ==
    /\ EngineIdle
    /\ LimiterInit
    /\ DetectorInit
    /\ EngineInit
    /\ WsInit
    /\ GraphInit
    /\ manual_halt = FALSE
    /\ ConcurrentInit
    /\ _cache = EmptyCache
    /\ _callbacks = <<"_on_price_update">>
    /\ _update_count = 0
    /\ last_call = BookCall("register_callback", None, None, <<>>, FALSE)

\* OrderbookManager.update(bbo), whose callback Engine._on_price_update calls
\* OpportunityDetector.on_price_update(bbo)
PriceUpdate(symbol, price) ==
    /\ _update_count < MaxPriceUpdates
    /\ \E bbo \in {BBO(symbol, price, 1, price, 1, 1, 0)} :
       \E cache \in {store(_cache, bbo)} :
       \E out \in {on_price_update(detector, cache, bbo, timestamp_us)} :
            /\ _cache' = cache
            /\ _update_count' = _update_count + 1
            /\ last_call' = BookCall("update", Some(bbo), _cache[bbo.symbol],
                                     notify(_callbacks).notified,
                                     notify(_callbacks).raised)
            /\ detector' = out.detector
            /\ emits' = [t \in TriangleIds |->
                            IF \E i \in 1..Len(out.notified) : out.notified[i].path.id = t
                            THEN Append(emits[t], timestamp_us) ELSE emits[t]]
            /\ prev_tick' = last_tick
            /\ last_tick' = Some(PriceTick(bbo, timestamp_us,
                                 [i \in 1..Len(out.returned) |-> out.returned[i].path.id]))
    /\ UNCHANGED <<_callbacks, timestamp_us>>
    /\ UNCHANGED notDetectorVars

\* time passes between two ticks
TimePasses(gap) ==
    /\ timestamp_us + gap <= StartUs + MaxElapsedMs * 1000
    /\ timestamp_us' = timestamp_us + gap
    /\ UNCHANGED <<detector, emits, prev_tick, last_tick>>
    /\ UNCHANGED bookVars
    /\ UNCHANGED notDetectorVars

NextDetector ==
    \/ \E symbol \in BookSymbols, price \in DetectorPrices : PriceUpdate(symbol, price)
    \/ \E gap \in TickGapsUs : TimePasses(gap)

SpecDetector == InitDetector /\ [][NextDetector]_vars

(* C20: the detector never notifies two opportunities for one triangle     *)
(* from ticks less than COOLDOWN_US (100 ms) apart; of two consecutive     *)
(* ticks less than 100 ms apart, e.g. two identical profitable ticks 10 ms *)
(* apart, at most one yields an Opportunity for a given triangle.          *)
C20_Cooldown ==
    /\ \A t \in TriangleIds : \A i \in 1..(Len(emits[t]) - 1) :
            emits[t][i + 1] - emits[t][i] >= COOLDOWN_US
    /\ (prev_tick # None /\ last_tick[1].timestamp - prev_tick[1].timestamp < COOLDOWN_US)
            => \A t \in TriangleIds :
                    ~(contains(prev_tick[1].returned, t) /\ contains(last_tick[1].returned, t))

\* two identical profitable ticks 10 ms apart gave exactly one Opportunity
C20_Witness ==
    /\ prev_tick # None
    /\ last_tick[1].timestamp - prev_tick[1].timestamp = 10000
    /\ last_tick[1].bbo.symbol = prev_tick[1].bbo.symbol
    /\ last_tick[1].bbo.bid_price = prev_tick[1].bbo.bid_price
    /\ Len(prev_tick[1].returned) = 1
    /\ last_tick[1].returned = <<>>
    /\ \E t \in TriangleIds : Len(emits[t]) = 1

(* C25: an execution in dry-run mode makes no transport call (no order is  *)
(* ever handed to the client and recovery is not entered); once it has     *)
(* passed the gate its result has status SUCCESS, every leg FILLED at the  *)
(* opportunity's quoted price for that leg, and total_profit equal to      *)
(* trade_size * (net_return - 1).                                          *)
C25_DryRunSimulated ==
    config.dry_run =>
        /\ orders = <<>>
        /\ ~InCalls("analyze_and_recover")
        /\ (Gated /\ result # None) =>
            /\ result[1].status = "SUCCESS"
            /\ Len(result[1].legs) = 3
            /\ \A i \in 1..3 :
                /\ result[1].legs[i].status = "FILLED"
                /\ result[1].legs[i].filled_price = opportunity[1].prices[i]
            /\ result[1].total_profit * opportunity[1].net_return.d =
                   trade_size * (opportunity[1].net_return.n
                                 - opportunity[1].net_return.d)

C25_Witness ==
    /\ config.dry_run
    /\ pc = "done"
    /\ Gated
    /\ result # None
    /\ result[1].total_profit = 16
    /\ trade_size = 32
    /\ calls = <<"check_trade", "record_trade_start", "record_trade_complete">>

(* C30: the quantity sent in a leg order is never larger than the quantity *)
(* computed for that leg, and the quantity sent in a liquidation order is  *)
(* never larger than the amount held (round_quantity rounds down).         *)
C30_NeverRoundsUp ==
    /\ \A k \in 1..Len(orders) :
        k <= 3 => orders[k].quantity <=
                      _calculate_leg_quantities(opportunity[1], trade_size)[k]
    /\ pc = "liquidate" =>
        orders[Len(orders)].quantity <= holdings[liquidation.index].amount

(***************************************************************************)
(* ArbitrageEngine (core/engine.py): the detector's callback, the          *)
(* execution tasks it creates, and shutdown (SpecEngine).  The executor    *)
(* and the risk manager are the ones above.  Opportunities reach the       *)
(* engine while no execution is in flight, so that one execute() call is   *)
(* suspended at a time.                                                    *)
(***************************************************************************)
MaxOpportunities == 3

MaxEngineExecutions == 1

EngineNetReturns == {Rat(1, 2), Rat(1, 1), Rat(3, 2)}

EngineOpportunities ==
    {Opportunity(PathBTCETH, Rat(2, 1), 24, n) : n \in EngineNetReturns}

InFlight == pc \in {"dry_run", "gather", "liquidate"}

\* RiskManager.is_trading_allowed
is_trading_allowed == ~state.is_halted

InitEngine ==
    /\ limits = RiskLimits(1, 0)
    /\ today = 1
    /\ now_ms = limits.min_time_between_trades_ms
    /\ state = RiskState(today)
    /\ balance = 64
    /\ ret = Called("init")
    /\ breach_day = 0
    /\ seen_day = today
    /\ config \in {ExecutorConfig(FALSE, TRUE), ExecutorConfig(FALSE, FALSE)}
    /\ ExecutorIdle
    /\ LimiterInit
    /\ BookInit
    /\ DetectorInit
    /\ EngineInit
    /\ WsInit
    /\ GraphInit
    /\ manual_halt = FALSE
    /\ ConcurrentInit

\* setup: the exchange client is created and used for the first requests
Setup ==
    /\ client_session = "none"
    /\ client_session' = "open"
    /\ UNCHANGED <<_running, shutdown_pc, execution_task, recorded>>
    /\ UNCHANGED <<riskVars, execVars, notEngineVars>>

\* run, up to `await self._shutdown_event.wait()`
Run ==
    /\ client_session = "open"
    /\ shutdown_pc = "none"
    /\ ~_running
    /\ ~InFlight
    /\ _running' = TRUE
    /\ UNCHANGED <<shutdown_pc, client_session, execution_task, recorded>>
    /\ UNCHANGED <<riskVars, execVars, notEngineVars>>

\* _on_opportunity, the detector's callback: record the opportunity and
\* create the execution task if it is profitable.  The feed delivers until
\* websocket.stop() has returned.
OnOpportunity(opp) ==
    /\ _running \/ shutdown_pc \in {"requested", "websocket_stop"}
    /\ recorded < MaxOpportunities
    /\ stats.total < MaxEngineExecutions
    /\ execution_task = None
    /\ ~InFlight
    /\ recorded' = recorded + 1
    /\ execution_task' = IF is_profitable(opp) THEN Some(opp) ELSE None
    /\ UNCHANGED <<_running, shutdown_pc, client_session>>
    /\ UNCHANGED <<riskVars, execVars, notEngineVars>>

\* _execute_opportunity, up to the first await inside executor.execute
ExecuteOpportunity ==
    /\ execution_task # None
    /\ execution_task' = None
    /\ IF ~is_trading_allowed
       THEN UNCHANGED <<riskVars, execVars>>
       ELSE execute(execution_task[1])
    /\ UNCHANGED <<_running, shutdown_pc, client_session, recorded>>
    /\ UNCHANGED notEngineVars

\* executor.execute awaited by a caller other than the engine's callback,
\* on an executor whose engine is not running
DirectExecute(opp) ==
    /\ client_session = "open"
    /\ ~_running
    /\ shutdown_pc = "none"
    /\ stats.total < MaxEngineExecutions
    /\ execution_task = None
    /\ execute(opp)
    /\ UNCHANGED engineVars
    /\ UNCHANGED notEngineVars

\* _handle_shutdown, the signal handler
HandleShutdown ==
    /\ _running
    /\ _running' = FALSE
    /\ shutdown_pc' = "requested"
    /\ UNCHANGED <<client_session, execution_task, recorded>>
    /\ UNCHANGED <<riskVars, execVars, notEngineVars>>

\* run's finally: shutdown(), up to `await self._websocket.stop()`
Shutdown ==
    /\ shutdown_pc = "requested"
    /\ shutdown_pc' = "websocket_stop"
    /\ UNCHANGED <<_running, client_session, execution_task, recorded>>
    /\ UNCHANGED <<riskVars, execVars, notEngineVars>>

\* websocket.stop() has returned; shutdown goes on to `await self._client.close()`
WebsocketStopped ==
    /\ shutdown_pc = "websocket_stop"
    /\ shutdown_pc' = "client_close"
    /\ UNCHANGED <<_running, client_session, execution_task, recorded>>
    /\ UNCHANGED <<riskVars, execVars, notEngineVars>>

\* client.close() has closed the session; shutdown runs to its end
ClientClosed ==
    /\ shutdown_pc = "client_close"
    /\ client_session' = "closed"
    /\ shutdown_pc' = "complete"
    /\ UNCHANGED <<_running, execution_task, recorded>>
    /\ UNCHANGED <<riskVars, execVars, notEngineVars>>

NextEngine ==
    \/ Setup
    \/ Run
    \/ \E opp \in EngineOpportunities : OnOpportunity(opp)
    \/ ExecuteOpportunity
    \/ \E opp \in EngineOpportunities : DirectExecute(opp)
    \/ DryRunDone
    \/ \E i \in 1..3 : LegDispatch(i)
    \/ \E i \in 1..3 : LegResolve(i)
    \/ GatherDone
    \/ LiquidationResolve
    \/ ForceHalt
    \/ Resume
    \/ HandleShutdown
    \/ Shutdown
    \/ WebsocketStopped
    \/ ClientClosed

SpecEngine == InitEngine /\ [][NextEngine]_vars

(* C26: an opportunity that is not profitable (net_return <= 1) never      *)
(* leads to the start of an execution: whenever the current execute() call *)
(* has called record_trade_start or has handed an order to the client, its *)
(* opportunity is profitable, whether execute was reached through the      *)
(* engine's callback or called directly.                                   *)
C26_UnprofitableNeverStarts ==
    (InCalls("record_trade_start") \/ orders # <<>>) =>
        is_profitable(opportunity[1])

(* C28: shutdown drains the executions in flight before it closes the      *)
(* transport: once the exchange client's session is closed, no execute()   *)
(* call started by an execution task is still waiting for the answer to an *)
(* order it has sent (a leg order or a liquidation order).                 *)
C28_DrainedBeforeClose ==
    client_session = "closed" =>
        ~(\/ pc = "gather" /\ \E i \in 1..3 : tasks[i].st = "sent"
          \/ pc = "liquidate")

(* C27: execute never ends a business-level failure by raising: whether    *)
(* the risk check rejected, an order was rejected, the transport raised on *)
(* any subset of the legs, or recovery failed, a call that has ended has   *)
(* returned an ExecutionResult with a status of ExecutionStatus and three  *)
(* LegResults each with a status of OrderStatus; a rejection by the risk   *)
(* check and a leg whose call raised are reported as FAILED with a text.   *)
C27_AlwaysTypedResult ==
    pc = "done" =>
        /\ result # None
        /\ result[1].status \in {"SUCCESS", "PARTIAL", "FAILED"}
        /\ Len(result[1].legs) = 3
        /\ \A i \in 1..3 : result[1].legs[i].status \in OrderStatus
        /\ ~Gated => (result[1].status = "FAILED" /\ result[1].error_message # <<>>)
        /\ (Live /\ Gated) =>
            \A i \in 1..3 :
                tasks[i].outcome.kind = "exception" =>
                    /\ result[1].legs[i].status = "FAILED"
                    /\ result[1].legs[i].error_message # <<>>
                    /\ result[1].status # "SUCCESS"

C27_Witness ==
    /\ pc = "done"
    /\ Live
    /\ result # None
    /\ result[1].status = "PARTIAL"
    /\ tasks[1].outcome.kind = "exception"
    /\ result[1].legs[3].status = "REJECTED"
    /\ recovery_result # None
    /\ ~recovery_result[1].success

(***************************************************************************)
(* TriangleDiscovery (strategy/graph.py): the directed graph built from    *)
(* the listed symbols and the triangles found in it (SpecGraph).  The      *)
(* graph is the sequence of its edges in insertion order, which is the     *)
(* order networkx iterates neighbours in; a symbol is <<base, quote>>.     *)
(***************************************************************************)
MaxSymbols == 5

GraphSymbols ==
    {BTCUSDT, ETHUSDT, ETHBTC, <<"BNB", "USDT">>, <<"BNB", "BTC">>, <<"USDT", "BTC">>}

BaseAssets == {"USDT", "BTC"}

MaxTriangleArgs == {0, 1, 100}

Edge(a, b, symbol, side) == [from |-> a, to |-> b, symbol |-> symbol, side |-> side]

\* DiGraph.add_edge: a new edge goes last, an existing one has its data replaced
add_edge(g, e) ==
    IF \E k \in 1..Len(g) : g[k].from = e.from /\ g[k].to = e.to
    THEN [k \in 1..Len(g) |->
            IF g[k].from = e.from /\ g[k].to = e.to THEN e ELSE g[k]]
    ELSE Append(g, e)

RECURSIVE build_graph_from(_, _, _)
build_graph_from(infos, i, g) ==
    IF i > Len(infos) THEN g
    ELSE LET base == infos[i][1]
             quote == infos[i][2]
         IN  build_graph_from(infos, i + 1,
                add_edge(add_edge(g, Edge(quote, base, infos[i], "BUY")),
                         Edge(base, quote, infos[i], "SELL")))

build_graph(infos) == build_graph_from(infos, 1, <<>>)

in_graph(g, n) == \E k \in 1..Len(g) : g[k].from = n \/ g[k].to = n

has_edge(g, a, b) == \E k \in 1..Len(g) : g[k].from = a /\ g[k].to = b

edge(g, a, b) == g[CHOOSE k \in 1..Len(g) : g[k].from = a /\ g[k].to = b]

neighbors(g, n) ==
    LET out == SelectSeq(g, LAMBDA e : e.from = n)
    IN  [k \in 1..Len(out) |-> out[k].to]

\* _build_triangle with leg 3 read from the edge mid1 -> base
_build_triangle_wrong_edge(g, base, mid1, mid2) ==
    IF ~(has_edge(g, base, mid1) /\ has_edge(g, mid1, mid2) /\ has_edge(g, mid2, base)
         /\ has_edge(g, mid1, base))
    THEN None
    ELSE Some([id |-> <<base, mid1, mid2>>,
               base_asset |-> base,
               legs |-> <<TriangleLeg(edge(g, base, mid1).symbol,
                                      edge(g, base, mid1).side, base, mid1),
                          TriangleLeg(edge(g, mid1, mid2).symbol,
                                      edge(g, mid1, mid2).side, mid1, mid2),
                          TriangleLeg(edge(g, mid1, base).symbol,
                                      edge(g, mid1, base).side, mid2, base)>>])

\* _build_triangle: the id stands for f"{base}-{mid1}-{mid2}"; a missing edge
\* is the KeyError that makes it return None
_build_triangle(g, base, mid1, mid2) ==
    IF ~(has_edge(g, base, mid1) /\ has_edge(g, mid1, mid2) /\ has_edge(g, mid2, base))
    THEN None
    ELSE Some([id |-> <<base, mid1, mid2>>,
               base_asset |-> base,
               legs |-> <<TriangleLeg(edge(g, base, mid1).symbol,
                                      edge(g, base, mid1).side, base, mid1),
                          TriangleLeg(edge(g, mid1, mid2).symbol,
                                      edge(g, mid1, mid2).side, mid1, mid2),
                          TriangleLeg(edge(g, mid2, base).symbol,
                                      edge(g, mid2, base).side, mid2, base)>>])

\* find_triangles, the inner loop over the neighbours of first_hop
RECURSIVE second_hops(_, _, _, _, _, _, _)
second_hops(g, base, first_hop, seconds, j, acc, max_triangles) ==
    IF j > Len(seconds) THEN acc
    ELSE LET second_hop == seconds[j]
             path_set == {first_hop, second_hop}
         IN  IF second_hop = base \/ second_hop = first_hop THEN
                 second_hops(g, base, first_hop, seconds, j + 1, acc, max_triangles)
             ELSE IF ~has_edge(g, second_hop, base) THEN
                 second_hops(g, base, first_hop, seconds, j + 1, acc, max_triangles)
             ELSE IF path_set \in acc.seen_paths THEN
                 second_hops(g, base, first_hop, seconds, j + 1, acc, max_triangles)
             ELSE LET triangle == _build_triangle(g, base, first_hop, second_hop)
                      seen == acc.seen_paths \cup {path_set}
                  IN  IF triangle = None THEN
                          second_hops(g, base, first_hop, seconds, j + 1,
                                      [acc EXCEPT !.seen_paths = seen], max_triangles)
                      ELSE IF Len(acc.triangles) + 1 >= max_triangles THEN
                          [seen_paths |-> seen,
                           triangles |-> Append(acc.triangles, triangle[1])]
                      ELSE
                          second_hops(g, base, first_hop, seconds, j + 1,
                                      [seen_paths |-> seen,
                                       triangles |-> Append(acc.triangles, triangle[1])],
                                      max_triangles)

\* find_triangles, the outer loop over the neighbours of the base asset
RECURSIVE first_hops(_, _, _, _, _, _)
first_hops(g, base, firsts, i, acc, max_triangles) ==
    IF i > Len(firsts) THEN acc.triangles
    ELSE IF firsts[i] = base THEN
        first_hops(g, base, firsts, i + 1, acc, max_triangles)
    ELSE LET after == second_hops(g, base, firsts[i], neighbors(g, firsts[i]), 1,
                                  acc, max_triangles)
         IN  IF Len(after.triangles) >= max_triangles THEN after.triangles
             ELSE first_hops(g, base, firsts, i + 1, after, max_triangles)

find_triangles(g, base_asset, max_triangles) ==
    IF ~in_graph(g, base_asset) THEN <<>>
    ELSE first_hops(g, base_asset, neighbors(g, base_asset), 1,
                    [seen_paths |-> {}, triangles |-> <<>>], max_triangles)

\* SymbolManager gains a symbol (load_from_exchange_info, one symbol at a time)
AddSymbol(symbol) ==
    /\ Len(exchange_symbols) < MaxSymbols
    /\ \A k \in 1..Len(exchange_symbols) : exchange_symbols[k] # symbol
    /\ exchange_symbols' = Append(exchange_symbols, symbol)
    /\ UNCHANGED <<_graph, found_triangles>>
    /\ UNCHANGED notGraphVars

BuildGraph ==
    /\ _graph' = build_graph(exchange_symbols)
    /\ UNCHANGED <<exchange_symbols, found_triangles>>
    /\ UNCHANGED notGraphVars

FindTriangles(base_asset, max_triangles) ==
    /\ found_triangles' = find_triangles(_graph, base_asset, max_triangles)
    /\ UNCHANGED <<exchange_symbols, _graph>>
    /\ UNCHANGED notGraphVars

InitGraph ==
    /\ EngineIdle
    /\ OthersIdle

NextGraph ==
    \/ \E symbol \in GraphSymbols : AddSymbol(symbol)
    \/ BuildGraph
    \/ \E base_asset \in BaseAssets, max_triangles \in MaxTriangleArgs :
            FindTriangles(base_asset, max_triangles)

SpecGraph == InitGraph /\ [][NextGraph]_vars

(* C29: every triangle returned by find_triangles is a closed cycle of     *)
(* three legs from the base asset: leg 1 starts at the base asset, each    *)
(* leg starts at the asset the leg before it ends at, leg 3 ends at the    *)
(* base asset, each leg's symbol is a pair trading the leg's two assets,   *)
(* and the three symbols are distinct.                                     *)
C29_ClosedCycle ==
    \A k \in 1..Len(found_triangles) :
        LET t == found_triangles[k]
        IN  /\ Len(t.legs) = 3
            /\ t.legs[1].from_asset = t.base_asset
            /\ t.legs[1].to_asset = t.legs[2].from_asset
            /\ t.legs[2].to_asset = t.legs[3].from_asset
            /\ t.legs[3].to_asset = t.base_asset
            /\ \A i \in 1..3 :
                {t.legs[i].symbol[1], t.legs[i].symbol[2]} =
                    {t.legs[i].from_asset, t.legs[i].to_asset}
            /\ Cardinality({t.legs[i].symbol : i \in 1..3}) = 3

C29_Witness ==
    /\ Len(found_triangles) = 2
    /\ found_triangles[1].base_asset = "USDT"
    /\ \E i \in 1..3 : found_triangles[2].legs[i].symbol = <<"USDT", "BTC">>

(***************************************************************************)
(* WebSocketConnection (market/websocket.py) with the handlers the engine  *)
(* gives it: WebSocketManager._dispatch_message around                     *)
(* ArbitrageEngine._on_ws_message (SpecWebsocket).  Delays are in seconds. *)
(* A text frame is what orjson.loads makes of it: either a decode error or *)
(* a JSON value, of which the code looks at the type and the keys.         *)
(***************************************************************************)
MaxAttempts == 7

MaxMessages == 2

TickerKeys == {"s", "b", "B", "a", "A", "u"}

JsonObject(keys, data) == [type |-> "object", keys |-> keys, data |-> data]

JsonScalar(type) == [type |-> type, keys |-> {}, data |-> None]

Ticker == JsonObject(TickerKeys, None)

TextFrame(well_formed, value) ==
    [type |-> "TEXT", well_formed |-> well_formed, value |-> value]

ControlFrame(type) == [type |-> type, well_formed |-> TRUE, value |-> JsonScalar("null")]

Frames ==
    {TextFrame(TRUE, JsonObject({"stream", "data"}, Some(Ticker))),
     TextFrame(TRUE, Ticker),
     TextFrame(TRUE, JsonObject({"stream", "data"},
                                Some(JsonObject(TickerKeys \ {"b"}, None)))),
     TextFrame(TRUE, JsonObject({"result", "id"}, None)),
     TextFrame(FALSE, JsonScalar("null")),
     TextFrame(TRUE, JsonScalar("number")),
     TextFrame(TRUE, JsonObject({"stream", "data"}, Some(JsonScalar("number")))),
     ControlFrame("BINARY"), ControlFrame("ERROR"), ControlFrame("CLOSE")}

\* `key in value`: a key test on an object, a TypeError on a number or null
key_in(key, value) ==
    IF value.type = "object"
    THEN [raised |-> FALSE, found |-> key \in value.keys]
    ELSE [raised |-> TRUE, found |-> FALSE]

\* ArbitrageEngine._on_ws_message: "updated", "ignored" or "raised"
_on_ws_message(data) ==
    IF key_in("s", data).raised THEN "raised"
    ELSE IF ~key_in("s", data).found THEN "ignored"
    ELSE IF {"s", "b", "B", "a", "A"} \subseteq data.keys THEN "updated"
    ELSE "raised"

\* WebSocketManager._dispatch_message: a raising handler is logged, not raised
_dispatch_message(data) ==
    IF _on_ws_message(data) = "raised"
    THEN [updated |-> 0, log |-> Some("Handler error")]
    ELSE [updated |-> IF _on_ws_message(data) = "updated" THEN 1 ELSE 0, log |-> None]

Handled(returns, raised, counted, updated, log) ==
    [returns |-> returns, raised |-> raised, counted |-> counted,
     updated |-> updated, log |-> log]

\* WebSocketConnection._handle_message
_handle_message(frame) ==
    IF frame.type = "TEXT" THEN
        IF ~frame.well_formed THEN Handled(TRUE, FALSE, 0, 0, Some("Invalid JSON"))
        ELSE IF key_in("data", frame.value).raised THEN Handled(TRUE, TRUE, 1, 0, None)
        ELSE LET data == IF key_in("data", frame.value).found
                         THEN frame.value.data[1] ELSE frame.value
                 d == _dispatch_message(data)
             IN  Handled(TRUE, FALSE, 1, d.updated, d.log)
    ELSE IF frame.type = "ERROR" THEN Handled(FALSE, FALSE, 0, 0, Some("Error"))
    ELSE IF frame.type \in {"CLOSE", "CLOSED"}
    THEN Handled(FALSE, FALSE, 0, 0, Some("Connection closed"))
    ELSE Handled(TRUE, FALSE, 0, 0, None)

\* _reconnect's backoff without the cap
backoff_uncapped(delay) == delay * RECONNECT_MULTIPLIER

\* _reconnect, lines 164-168
backoff(delay) == min(delay * RECONNECT_MULTIPLIER, MAX_RECONNECT_DELAY)

\* what ws_connect and the iteration over the socket raise when the transport
\* fails (aiohttp's errors and the receive timeout), all of them Exceptions;
\* Task.cancel() throws a CancelledError, which is a BaseException only
TransportErrors == {"ClientConnectorError", "WSServerHandshakeError", "TimeoutError"}

\* connect's handler were it written for the connector's error only
connect_except_narrow(exc) == exc = "ClientConnectorError"

\* connect, lines 134-137: `except Exception` turns the error into a False return
connect_except(exc) == exc # "CancelledError"

\* run, lines 228-231: a CancelledError leaves the loop, any other Exception is
\* logged; both go on at line 233
run_except(exc) == IF exc = "CancelledError" THEN "break" ELSE "logged"

\* the awaits run() can be suspended at, and the ways its task can have ended
Awaits == {"connect", "reconnect", "sleep", "reading"}

TaskDone == {"returned", "cancelled", "raised"}

\* stop() has cancelled the task and the task has not been resumed since: its
\* next step is the CancelledError thrown at the await it is suspended at
_must_cancel == stop_pc # "idle" /\ run_pc \in Awaits

\* stop's wait_for were it to return without the task having ended
wait_for_unawaited(at) == TRUE

\* stop, lines 249-252: wait_for returns (or raises, which is swallowed) once
\* the task has ended; on its timeout it cancels the task and awaits it first
wait_for(at) == at \in TaskDone

\* run and stop leave the frames and the orderbook alone
WsQuiet == UNCHANGED <<last_msg, ticker_updates>>

\* start() and run() up to the ws_connect awaited by its first connect()
Start ==
    /\ run_pc = "created"
    /\ connection' = [connection EXCEPT !._running = TRUE, !._state = "CONNECTING"]
    /\ attempts' = attempts + 1
    /\ run_pc' = "connect"
    /\ ws_log' = Some("Connecting")
    /\ UNCHANGED <<slept, stop_pc>>
    /\ WsQuiet
    /\ UNCHANGED notWsVars

\* connect() succeeds: CONNECTED, the delay back at its minimum, and run (or
\* _reconnect, which returns to run) enters the message loop
ConnectOk ==
    /\ run_pc \in {"connect", "reconnect"}
    /\ ~_must_cancel
    /\ connection' = [connection EXCEPT !._state = "CONNECTED",
                                       !._reconnect_delay = MIN_RECONNECT_DELAY]
    /\ run_pc' = "reading"
    /\ ws_log' = Some("Connected successfully")
    /\ UNCHANGED <<slept, attempts, stop_pc>>
    /\ WsQuiet
    /\ UNCHANGED notWsVars

\* ws_connect raises in run's connect(): caught, connect returns False and
\* _reconnect starts and sleeps the current delay; uncaught, it leaves run
ConnectFail(exc) ==
    /\ run_pc = "connect"
    /\ ~_must_cancel
    /\ IF connect_except(exc) THEN
            /\ connection' = [connection EXCEPT !._state = "RECONNECTING"]
            /\ slept' = Some(connection._reconnect_delay)
            /\ run_pc' = "sleep"
            /\ ws_log' = Some("Reconnecting")
       ELSE
            /\ run_pc' = "raised"
            /\ UNCHANGED <<connection, slept, ws_log>>
    /\ UNCHANGED <<attempts, stop_pc>>
    /\ WsQuiet
    /\ UNCHANGED notWsVars

\* _reconnect's sleep is over: connect() is called and awaits ws_connect
SleepOver ==
    /\ run_pc = "sleep"
    /\ ~_must_cancel
    /\ connection' = [connection EXCEPT !._state = "CONNECTING"]
    /\ attempts' = min(attempts + 1, MaxAttempts)
    /\ run_pc' = "reconnect"
    /\ ws_log' = Some("Connecting")
    /\ UNCHANGED <<slept, stop_pc>>
    /\ WsQuiet
    /\ UNCHANGED notWsVars

\* ws_connect raises in _reconnect's connect(): caught, back off and sleep the
\* new delay; uncaught, it leaves _reconnect and run
ReconnectFail(exc) ==
    /\ run_pc = "reconnect"
    /\ ~_must_cancel
    /\ IF connect_except(exc) THEN
            /\ \E delay \in {backoff(connection._reconnect_delay)} :
                /\ connection' = [connection EXCEPT !._state = "DISCONNECTED",
                                                   !._reconnect_delay = delay]
                /\ slept' = Some(delay)
            /\ run_pc' = "sleep"
            /\ ws_log' = Some("Reconnecting")
       ELSE
            /\ run_pc' = "raised"
            /\ UNCHANGED <<connection, slept, ws_log>>
    /\ UNCHANGED <<attempts, stop_pc>>
    /\ WsQuiet
    /\ UNCHANGED notWsVars

\* the message loop receives a frame: _handle_message, then either the next
\* frame is awaited or the loop is left (a False return or an exception) and
\* _reconnect starts and sleeps
Receive(frame) ==
    /\ run_pc = "reading"
    /\ ~_must_cancel
    /\ IF last_msg = None THEN TRUE ELSE last_msg[1].seq < MaxMessages
    /\ last_msg' = Some([seq |-> IF last_msg = None THEN 1 ELSE last_msg[1].seq + 1,
                         frame |-> frame])
    /\ LET h == _handle_message(frame)
       IN  /\ ticker_updates' = ticker_updates + h.updated
           /\ IF h.raised \/ ~h.returns THEN
                   /\ connection' = [connection EXCEPT
                                        !._message_count = @ + h.counted,
                                        !._state = "RECONNECTING"]
                   /\ slept' = Some(connection._reconnect_delay)
                   /\ run_pc' = "sleep"
                   /\ ws_log' = Some("Reconnecting")
              ELSE
                   /\ connection' = [connection EXCEPT !._message_count = @ + h.counted]
                   /\ ws_log' = h.log
                   /\ UNCHANGED <<slept, run_pc>>
    /\ UNCHANGED <<attempts, stop_pc>>
    /\ UNCHANGED notWsVars

\* the iteration over the socket ends without a frame (exc "none") or raises:
\* the loop is left, the error logged, and _reconnect sleeps
ConnectionLost(exc) ==
    /\ run_pc = "reading"
    /\ ~_must_cancel
    /\ IF exc = "none" THEN TRUE ELSE run_except(exc) = "logged"
    /\ connection' = [connection EXCEPT !._state = "RECONNECTING"]
    /\ slept' = Some(connection._reconnect_delay)
    /\ run_pc' = "sleep"
    /\ ws_log' = Some("Reconnecting")
    /\ UNCHANGED <<attempts, stop_pc>>
    /\ WsQuiet
    /\ UNCHANGED notWsVars

\* stop(), lines 245-250: the running flag is cleared, the task cancelled and
\* awaited
Stop ==
    /\ run_pc # "created"
    /\ stop_pc = "idle"
    /\ connection' = [connection EXCEPT !._running = FALSE]
    /\ stop_pc' = "wait_for"
    /\ UNCHANGED <<run_pc, slept, attempts, ws_log>>
    /\ WsQuiet
    /\ UNCHANGED notWsVars

\* the cancelled task is resumed with a CancelledError at its await.  In the
\* message loop run catches it (228-229) and goes on at line 234, where the
\* cleared flag ends it; in ws_connect connect's `except Exception` does not
\* catch it, and from there and from the sleep it leaves run (lines 211, 212
\* and 236 are outside the try)
Cancelled ==
    /\ _must_cancel
    /\ IF run_pc = "reading" /\ run_except("CancelledError") = "break" THEN
            IF connection._running THEN
                /\ connection' = [connection EXCEPT !._state = "RECONNECTING"]
                /\ slept' = Some(connection._reconnect_delay)
                /\ run_pc' = "sleep"
                /\ ws_log' = Some("Reconnecting")
            ELSE
                /\ run_pc' = "returned"
                /\ UNCHANGED <<connection, slept, ws_log>>
       ELSE IF run_pc \in {"connect", "reconnect"} /\ connect_except("CancelledError") THEN
            /\ connection' = [connection EXCEPT !._state = "DISCONNECTED"]
            /\ run_pc' = "returned"
            /\ ws_log' = Some("Connection failed")
            /\ UNCHANGED slept
       ELSE
            /\ run_pc' = "cancelled"
            /\ UNCHANGED <<connection, slept, ws_log>>
    /\ UNCHANGED <<attempts, stop_pc>>
    /\ WsQuiet
    /\ UNCHANGED notWsVars

\* stop(), lines 250-254: the wait is over and disconnect() closes the
\* connection
StopReturn ==
    /\ stop_pc = "wait_for"
    /\ wait_for(run_pc)
    /\ connection' = [connection EXCEPT !._running = FALSE, !._state = "CLOSED"]
    /\ stop_pc' = "returned"
    /\ UNCHANGED <<run_pc, slept, attempts, ws_log>>
    /\ WsQuiet
    /\ UNCHANGED notWsVars

InitWebsocket ==
    /\ EngineIdle
    /\ OthersIdle

NextWebsocket ==
    \/ Start
    \/ ConnectOk
    \/ \E exc \in TransportErrors : ConnectFail(exc)
    \/ SleepOver
    \/ \E exc \in TransportErrors : ReconnectFail(exc)
    \/ \E frame \in Frames : Receive(frame)
    \/ \E exc \in TransportErrors \cup {"none"} : ConnectionLost(exc)
    \/ Stop
    \/ Cancelled
    \/ StopReturn

SpecWebsocket == InitWebsocket /\ [][NextWebsocket]_vars

(* C21: the reconnect delay starts at MIN_RECONNECT_DELAY (1 s), is        *)
(* doubled after each failed reconnect up to MAX_RECONNECT_DELAY (30 s),   *)
(* and is back at the minimum after every successful connect; every delay  *)
(* that is waited lies between 1 s and 30 s.                               *)
C21_Backoff ==
    /\ [](/\ attempts = 0 => connection._reconnect_delay = MIN_RECONNECT_DELAY
          /\ connection._reconnect_delay \in MIN_RECONNECT_DELAY..MAX_RECONNECT_DELAY
          /\ slept # None => slept[1] \in MIN_RECONNECT_DELAY..MAX_RECONNECT_DELAY)
    /\ [][/\ (run_pc = "reconnect" /\ run_pc' = "sleep") =>
                /\ connection'._reconnect_delay =
                       min(2 * connection._reconnect_delay, MAX_RECONNECT_DELAY)
                /\ slept' = Some(connection'._reconnect_delay)
          /\ connection'._state = "CONNECTED" =>
                connection'._reconnect_delay = MIN_RECONNECT_DELAY]_vars

C21_Witness ==
    /\ slept = Some(MAX_RECONNECT_DELAY)
    /\ connection._state = "CONNECTED"
    /\ connection._reconnect_delay = MIN_RECONNECT_DELAY

\* a text frame that does not parse into a ticker: malformed JSON, a JSON
\* value that is no object, or a ticker lacking one of its fields
FailsToParse(frame) ==
    /\ frame.type = "TEXT"
    /\ \/ ~frame.well_formed
       \/ frame.value.type # "object"
       \/ LET data == IF "data" \in frame.value.keys
                      THEN frame.value.data[1] ELSE frame.value
          IN  \/ data.type # "object"
              \/ "s" \in data.keys /\ ~({"s", "b", "B", "a", "A"} \subseteq data.keys)

(* C22: a feed message that fails to parse (malformed JSON, or a value     *)
(* without the expected structure or fields) is skipped: in the step that  *)
(* receives it the connection stays CONNECTED, no reconnect is started,    *)
(* the orderbook is not updated, and the loop goes on to await the next    *)
(* message.                                                                *)
C22_ParseFailureSkipped ==
    [][(last_msg' # last_msg /\ FailsToParse(last_msg'[1].frame)) =>
            /\ connection'._state = "CONNECTED"
            /\ run_pc' = "reading"
            /\ slept' = slept
            /\ ticker_updates' = ticker_updates]_vars

(* C34: once force_halt has been called, check_trade rejects every trade   *)
(* until resume() has returned True, whatever record_trade_complete and    *)
(* record_trade_failed calls and calendar-day rollovers happen in between. *)
C34_ManualHaltHolds ==
    [][(manual_halt /\ ret'.op = "check_trade") => ~ret'.passed]_vars

(* C39: record_trade_failed changes only open_positions: in the step in    *)
(* which an execution that ended PARTIAL or FAILED calls it, daily_pnl,    *)
(* daily_trades, last_trade_time_ms, current_date and the halt state keep  *)
(* their values and open_positions goes down by one (not below zero).      *)
C39_FailedOnlyOpenPositions ==
    [][(/\ Len(calls') > Len(calls)
        /\ calls'[Len(calls) + 1] = "record_trade_failed") =>
            /\ result'[1].status \in {"PARTIAL", "FAILED"}
            /\ state' = [state EXCEPT !.open_positions = max(0, @ - 1)]]_vars

C39_Witness ==
    /\ pc = "done"
    /\ InCalls("record_trade_failed")
    /\ result # None
    /\ result[1].status = "PARTIAL"
    /\ state.open_positions = 0
    /\ state.daily_trades = 1
    /\ state.daily_pnl # 0

(***************************************************************************)
(* A detector of its own over five symbols, called directly: price ticks,  *)
(* full scans, calculator calls, fee changes and callback registrations    *)
(* (SpecScan).                                                             *)
(***************************************************************************)
BNBUSDT == <<"BNB", "USDT">>

BNBBTC == <<"BNB", "BTC">>

PathBTCBNB ==
    TrianglePath("USDT-BTC-BNB",
        <<TriangleLeg(BTCUSDT, "BUY", "USDT", "BTC"),
          TriangleLeg(BNBBTC, "BUY", "BTC", "BNB"),
          TriangleLeg(BNBUSDT, "SELL", "BNB", "USDT")>>)

ScanTriangles == <<PathBTCETH, PathBTCBNB, PathETHBTC>>

ScanSymbols == {BTCUSDT, ETHUSDT, ETHBTC, BNBUSDT, BNBBTC}

MaxScans == 2           \* on_price_update and scan_all are called MaxScans times
MaxScanCallbacks == 2   \* callbacks registered with the detector

\* <<bid, ask>> of a tick
ScanQuotes == {<<1, 2>>, <<8, 8>>}

FeeRates == {Rat(0, 1), Rat(1, 10), Rat(1, 5)}

MaxOpportunitiesArgs == {1, 2}

Quote(symbol, quote) == BBO(symbol, quote[1], 1, quote[2], 1, 1, 0)

\* books in which both USDT-BTC-ETH and USDT-BTC-BNB pay, the second more
RichCache ==
    [s \in ScanSymbols |->
        Some(Quote(s, IF s = BTCUSDT THEN <<1, 2>>
                      ELSE IF s = ETHUSDT THEN <<4, 4>>
                      ELSE IF s = BNBUSDT THEN <<8, 8>>
                      ELSE <<1, 1>>))]

ScanCaches == {[s \in ScanSymbols |-> None], RichCache}

\* the latest call and what it did
ScanCall(op, arg, d, out) ==
    [op |-> op, arg |-> arg, timestamp |-> timestamp_us,
     cap |-> d._max_opportunities, callbacks |-> d._callbacks,
     notified |-> out.notified, delivered |-> out.delivered,
     returned |-> out.returned, raised |-> out.raised]

NoScan == [notified |-> <<>>, delivered |-> <<>>, returned |-> <<>>, raised |-> FALSE]

InitScan ==
    /\ EngineIdle
    /\ LimiterInit
    /\ EngineInit
    /\ WsInit
    /\ GraphInit
    /\ manual_halt = FALSE
    /\ ConcurrentInit
    /\ _cache \in ScanCaches
    /\ _callbacks = <<>>
    /\ _update_count = 0
    /\ last_call = BookCall("__init__", None, None, <<>>, FALSE)
    /\ \E cap \in MaxOpportunitiesArgs :
            detector = OpportunityDetector(_calculator, ScanTriangles, cap)
    /\ emits = [t \in {ScanTriangles[i].id : i \in 1..Len(ScanTriangles)} |-> <<>>]
    /\ timestamp_us = StartUs
    /\ prev_tick = None
    /\ last_tick = None

ScanRegisterCallback(callback) ==
    /\ Len(detector._callbacks) < MaxScanCallbacks
    /\ detector' = register_opportunity_callback(detector, callback)
    /\ last_tick' = Some(ScanCall("register_callback", callback, detector', NoScan))
    /\ UNCHANGED <<emits, timestamp_us, prev_tick>>
    /\ UNCHANGED bookVars
    /\ UNCHANGED notDetectorVars

SetFeeRate(fee_rate) ==
    /\ fee_rate # detector._calculator._fee_rate
    /\ detector' = [detector EXCEPT !._calculator = set_fee_rate(@, fee_rate)]
    /\ last_tick' = Some(ScanCall("set_fee_rate", fee_rate, detector', NoScan))
    /\ UNCHANGED <<emits, timestamp_us, prev_tick>>
    /\ UNCHANGED bookVars
    /\ UNCHANGED notDetectorVars

\* ArbitrageCalculator.calculate_opportunity(path, orderbook), called directly
CalculateOpportunity(path) ==
    /\ \E opp \in {calculate_opportunity(detector._calculator, path, _cache, timestamp_us)} :
                    /\ last_tick' = Some(ScanCall("calculate_opportunity", path.id, detector,
                                          [NoScan EXCEPT !.returned = opp]))
    /\ UNCHANGED <<detector, emits, timestamp_us, prev_tick>>
    /\ UNCHANGED bookVars
    /\ UNCHANGED notDetectorVars

\* OrderbookManager.update(bbo) followed by OpportunityDetector.on_price_update(bbo)
ScanPriceUpdate(symbol, quote) ==
    /\ detector._stats.total_scans < MaxScans
    /\ \E bbo \in {Quote(symbol, quote)} :
       \E cache \in {store(_cache, bbo)} :
       \E out \in {on_price_update(detector, cache, bbo, timestamp_us)} :
            /\ _cache' = cache
            /\ _update_count' = _update_count + 1
            /\ detector' = out.detector
            /\ emits' = [t \in DOMAIN emits |->
                            IF \E i \in 1..Len(out.notified) : out.notified[i].path.id = t
                            THEN Append(emits[t], timestamp_us) ELSE emits[t]]
                    /\ last_tick' = Some(ScanCall("on_price_update", symbol, detector, out))
    /\ UNCHANGED <<_callbacks, last_call, timestamp_us, prev_tick>>
    /\ UNCHANGED notDetectorVars

\* OpportunityDetector.scan_all()
ScanAll ==
    /\ detector._stats.total_scans < MaxScans
    /\ \E out \in {scan_all(detector, _cache, timestamp_us)} :
            /\ detector' = out.detector
                    /\ last_tick' = Some(ScanCall("scan_all", None, detector, out))
    /\ UNCHANGED <<emits, timestamp_us, prev_tick>>
    /\ UNCHANGED bookVars
    /\ UNCHANGED notDetectorVars

NextScan ==
    \/ \E callback \in CallbackNames : ScanRegisterCallback(callback)
    \/ \E fee_rate \in FeeRates : SetFeeRate(fee_rate)
    \/ \E k \in 1..Len(ScanTriangles) : CalculateOpportunity(ScanTriangles[k])
    \/ \E symbol \in ScanSymbols, quote \in ScanQuotes : ScanPriceUpdate(symbol, quote)
    \/ ScanAll
    \/ TimePasses(COOLDOWN_US)

SpecScan == InitScan /\ [][NextScan]_vars

\* the opportunities a call computed: those it returned and those it notified
Computed(call) ==
    {call.returned[k] : k \in 1..Len(call.returned)}
        \cup {call.notified[k] : k \in 1..Len(call.notified)}

\* the product of the prices quoted in the book for the legs of one side: the
\* ask of a BUY leg, the bid of a SELL leg
Quoted(cache, path, side) ==
    LET price(i) == IF path.legs[i].side # side THEN 1
                    ELSE IF side = "BUY" THEN cache[path.legs[i].symbol][1].ask_price
                    ELSE cache[path.legs[i].symbol][1].bid_price
    IN  price(1) * price(2) * price(3)

(* C31: every opportunity computed by calculate_opportunity, on_price_update *)
(* or scan_all has gross_return equal to 1 divided by the ask of each BUY   *)
(* leg and multiplied by the bid of each SELL leg, and net_return equal to  *)
(* gross_return * (1 - fee_rate)^3 for the fee_rate the calculator holds at *)
(* that call, also after set_fee_rate has changed it.                       *)
C31_ReturnsCompose ==
    [][(/\ last_tick' # last_tick
        /\ last_tick'[1].op \in {"calculate_opportunity", "on_price_update", "scan_all"}) =>
            \A opp \in Computed(last_tick'[1]) :
                LET f == detector'._calculator._fee_rate
                    keep == f.d - f.n
                IN  /\ opp.gross_return.n * Quoted(_cache', opp.path, "BUY") =
                           opp.gross_return.d * Quoted(_cache', opp.path, "SELL")
                    /\ opp.net_return.n * opp.gross_return.d * (f.d * f.d * f.d) =
                           opp.net_return.d * opp.gross_return.n * (keep * keep * keep)]_vars

\* an opportunity computed after set_fee_rate moved the fee from 1/10 to 1/5,
\* over a BUY leg whose ask differs from its bid
C31_Witness ==
    /\ last_tick # None
    /\ last_tick[1].op = "calculate_opportunity"
    /\ last_tick[1].arg = PathBTCETH.id
    /\ last_tick[1].returned # <<>>
    /\ detector._calculator._fee_rate = Rat(1, 5)
    /\ _cache[BTCUSDT][1].ask_price # _cache[BTCUSDT][1].bid_price

(* C37: on_price_update returns at most max_opportunities_per_scan         *)
(* opportunities, highest profit_pct first, and for one tick notifies at   *)
(* most that many opportunities, so no callback is called more often than  *)
(* that; scan_all returns at most as many, in the same order.              *)
C37_CappedAndSorted ==
    (last_tick # None /\ last_tick[1].op \in {"on_price_update", "scan_all"}) =>
        LET c == last_tick[1]
        IN  /\ Len(c.returned) <= c.cap
            /\ \A k \in 1..(Len(c.returned) - 1) :
                    GeRat(c.returned[k].profit_pct, c.returned[k + 1].profit_pct)
            /\ Len(c.notified) <= c.cap
            /\ \A i \in 1..Len(c.callbacks) :
                    Cardinality({k \in 1..Len(c.delivered) : c.delivered[k].index = i})
                        <= c.cap

\* a tick on BTCUSDT under a cap of 1: one opportunity was returned and
\* delivered although USDT-BTC-BNB, never emitted, pays as well
C37_Witness ==
    /\ last_tick # None
    /\ last_tick[1].op = "on_price_update"
    /\ last_tick[1].arg = BTCUSDT
    /\ last_tick[1].cap = 1
    /\ Len(last_tick[1].returned) = 1
    /\ Len(last_tick[1].delivered) >= 1
    /\ detector._last_opportunity_time[PathBTCBNB.id] = 0
    /\ is_emitted(calculate_opportunity(detector._calculator, PathBTCBNB, _cache,
                                        timestamp_us))

(* C38: every opportunity emitted by on_price_update is delivered exactly  *)
(* once to each registered callback, in registration order, opportunity by *)
(* opportunity; a raising callback stops neither the callbacks after it    *)
(* nor the return of the opportunity to the caller.                        *)
C38_EveryCallbackOnce ==
    (last_tick # None /\ last_tick[1].op = "on_price_update") =>
        LET c == last_tick[1]
            n == Len(c.callbacks)
        IN  /\ ~c.raised
            /\ Len(c.delivered) = Len(c.notified) * n
            /\ \A k \in 1..Len(c.notified) : \A i \in 1..n :
                    c.delivered[(k - 1) * n + i] = Delivery(c.callbacks[i], i, c.notified[k])
            /\ Len(c.returned) = Len(c.notified)
            /\ \A k \in 1..Len(c.notified) :
                    \E j \in 1..Len(c.returned) : c.returned[j] = c.notified[k]

\* two opportunities went to a raising callback registered before a sound one
C38_Witness ==
    /\ last_tick # None
    /\ last_tick[1].op = "on_price_update"
    /\ last_tick[1].callbacks = <<"bad_callback", "good_callback">>
    /\ Len(last_tick[1].notified) = 2
    /\ Len(last_tick[1].returned) = 2

(***************************************************************************)
(* The limiter under three tasks of which none gets a token of the request *)
(* bucket for good: acquire_order draws on the order and weight buckets,   *)
(* and try_acquire_request with a weight above the capacity of the weight  *)
(* bucket is always denied (SpecRefund).                                   *)
(***************************************************************************)
MaxRefundCallers == 3   \* tasks calling the limiter

OversizeWeight == 7

RefundOps == {"acquire_order", "try_acquire_request"}

InitRefund ==
    /\ EngineIdle
    /\ BookInit
    /\ DetectorInit
    /\ EngineInit
    /\ WsInit
    /\ GraphInit
    /\ manual_halt = FALSE
    /\ ConcurrentInit
    /\ timestamp_ms = 0
    /\ limiter = RateLimiter(1, 1, 6, timestamp_ms)
    /\ callers = [c \in 1..MaxRefundCallers |-> IdleCaller]
    /\ limiter_calls = 0

NextRefund ==
    \/ \E c \in 1..MaxRefundCallers, op \in RefundOps : Call(c, op, OversizeWeight)
    \/ \E c \in 1..MaxRefundCallers, k \in Buckets : TaskStart(c, k)
    \/ \E c \in 1..MaxRefundCallers, k \in Buckets : LockGranted(c, k)
    \/ \E c \in 1..MaxRefundCallers, k \in Buckets : SleepDone(c, k)
    \/ ClockTick

SpecRefund == InitRefund /\ [][NextRefund]_vars

(* C40: a denied try_acquire_request consumes nothing.  Where the request  *)
(* bucket is only ever drawn on by try_acquire_request calls that are      *)
(* denied, it holds, whenever none of them is under way, what it would     *)
(* hold had they not been made: its full capacity.                         *)
C40_DeniedConsumesNothing ==
    (\A c \in DOMAIN callers : ~(callers[c].st = "running" /\ is_try(callers[c].op))) =>
        limiter["_request_bucket"].tokens = limiter["_request_bucket"].capacity

(***************************************************************************)
(* Several tasks await execute() on one executor and one risk manager      *)
(* (SpecConcurrent).  A task runs execute from its call to its first await *)
(* in one step of the event loop, and from the return of _execute_dry_run  *)
(* or _execute_live to the calls that record the outcome in another; what  *)
(* the legs returned is an input of that second step.                      *)
(***************************************************************************)
ConcurrentLimit == 2   \* max_concurrent_positions

notConcurrentVars == <<limiterVars, bookVars, detectorVars, engineVars, wsVars, graphVars,
                       manual_halt>>

InitConcurrent ==
    /\ limits = RiskLimits(ConcurrentLimit, 0)
    /\ today = 1
    /\ now_ms = limits.min_time_between_trades_ms
    /\ state = RiskState(today)
    /\ balance = 64
    /\ ret = Called("init")
    /\ breach_day = 0
    /\ seen_day = today
    /\ config = ExecutorConfig(FALSE, TRUE)
    /\ ExecutorIdle
    /\ OthersIdle

\* execute, lines 92-111
Begin(e, opp) ==
    /\ executions[e].pc = "idle"
    /\ \E rc \in {check_trade(state, opp, opp.max_trade_qty, today, now_ms)} :
            IF risk_check_failed(rc.result) THEN
                /\ state' = rc.state
                /\ executions' = [executions EXCEPT ![e] =
                        Execution("done", Some(opp), <<"check_trade">>, "FAILED")]
            ELSE
                /\ state' = record_trade_start(rc.state, now_ms)
                /\ executions' = [executions EXCEPT ![e] =
                        Execution("awaiting", Some(opp),
                                  <<"check_trade", "record_trade_start">>, "")]
    /\ stats' = [stats EXCEPT !.total = @ + 1]
    /\ seen_day' = today
    /\ UNCHANGED <<balance, limits, today, now_ms, ret, breach_day>>
    /\ UNCHANGED <<config, pc, opportunity, risk_check, trade_size, tasks, result, orders,
                   calls, holdings, liquidation, recovery_result>>
    /\ UNCHANGED notConcurrentVars

\* execute, lines 119-125, on a result of the given status and profit
End(e, status, total_profit) ==
    /\ executions[e].pc = "awaiting"
    /\ IF status = "SUCCESS" THEN
            /\ stats' = [stats EXCEPT !.successful = @ + 1]
            /\ state' = record_trade_complete(state, total_profit)
            /\ executions' = [executions EXCEPT ![e] =
                    Execution("done", @.opportunity,
                              Append(@.calls, "record_trade_complete"), status)]
       ELSE
            /\ stats' = [stats EXCEPT !.failed = @ + 1]
            /\ state' = record_trade_failed(state)
            /\ executions' = [executions EXCEPT ![e] =
                    Execution("done", @.opportunity,
                              Append(@.calls, "record_trade_failed"), status)]
    /\ breach_day' = BreachDay(state')
    /\ seen_day' = today
    /\ UNCHANGED <<balance, limits, today, now_ms, ret>>
    /\ UNCHANGED <<config, pc, opportunity, risk_check, trade_size, tasks, result, orders,
                   calls, holdings, liquidation, recovery_result>>
    /\ UNCHANGED notConcurrentVars

NextConcurrent ==
    \/ \E e \in ExecutionIds, opp \in EngineOpportunities : Begin(e, opp)
    \/ \E e \in ExecutionIds, status \in {"SUCCESS", "PARTIAL", "FAILED"},
          total_profit \in Pnls : End(e, status, total_profit)
    \/ NewDay

SpecConcurrent == InitConcurrent /\ [][NextConcurrent]_vars

Awaiting == {e \in ExecutionIds : executions[e].pc = "awaiting"}

(* C32: with several execute calls under way on one executor,              *)
(* open_positions never exceeds max_concurrent_positions; the step of an   *)
(* execution that passes the risk check is the step that records its       *)
(* start, so no other execution runs between the two.                      *)
C32_NeverOverLimit ==
    /\ [](state.open_positions <= limits.max_concurrent_positions)
    /\ [][\A e \in ExecutionIds :
            (executions'[e].pc = "awaiting" /\ executions[e].pc # "awaiting") =>
                /\ state.open_positions < limits.max_concurrent_positions
                /\ state'.open_positions = state.open_positions + 1]_vars

\* two executions hold both positions and a third was turned away
C32_Witness ==
    /\ Cardinality(Awaiting) = ConcurrentLimit
    /\ state.open_positions = ConcurrentLimit
    /\ \E e \in ExecutionIds :
            /\ executions[e].pc = "done"
            /\ executions[e].calls = <<"check_trade">>

\* how often the execution under way has called the given method
CallCount(name) == Cardinality({k \in 1..Len(calls) : calls[k] = name})

(* C33: an execution that passed the risk gate has called                  *)
(* record_trade_start exactly once and, once _execute_dry_run or           *)
(* _execute_live has returned, exactly one of record_trade_complete and    *)
(* record_trade_failed exactly once, after the start, whatever the legs    *)
(* and the recovery did; an execution that was turned away calls none of   *)
(* them.  open_positions is the number of executions between the two       *)
(* calls.                                                                  *)
C33_StartAndEndOnce ==
    LET ended == CallCount("record_trade_complete") + CallCount("record_trade_failed")
    IN  /\ CallCount("record_trade_start") = (IF Gated THEN 1 ELSE 0)
        /\ ended = (IF Gated /\ pc \in {"liquidate", "done"} THEN 1 ELSE 0)
        /\ ended = 1 =>
                /\ calls[2] = "record_trade_start"
                /\ calls[3] \in {"record_trade_complete", "record_trade_failed"}
        /\ state.open_positions = (IF pc \in {"dry_run", "gather"} THEN 1 ELSE 0)

\* a live execution whose legs did not all fill and whose liquidation order
\* raised: one start, one record_trade_failed, no position left open
C33_Witness ==
    /\ pc = "done"
    /\ Gated
    /\ Live
    /\ recovery_result # None
    /\ recovery_result[1].error_message # <<>>
    /\ CallCount("record_trade_start") = 1
    /\ CallCount("record_trade_failed") = 1
    /\ state.open_positions = 0

(***************************************************************************)
(* The connection under the event loop's scheduling (SpecWebsocketFair): a *)
(* task whose sleep is over is resumed, a cancelled task is resumed with   *)
(* its CancelledError, and stop() goes on once the task it awaits has      *)
(* ended.  Whether a connect attempt succeeds is left to the transport.    *)
(***************************************************************************)
SpecWebsocketFair ==
    /\ InitWebsocket
    /\ [][NextWebsocket]_vars
    /\ WF_vars(SleepOver)
    /\ WF_vars(Cancelled)
    /\ WF_vars(StopReturn)

\* the transport eventually accepts connections: it does not refuse every one
\* of an unending series of connect attempts
TransportAccepts == SF_vars(ConnectOk)

(* C35: while the connection is running its stream task never ends: every  *)
(* transport error or close (a failed connect, an error or close frame, a  *)
(* socket that ends or raises) is followed by the reconnect backoff sleep, *)
(* and, if the transport eventually accepts connections, a running         *)
(* connection that is not CONNECTED becomes CONNECTED again (or is         *)
(* stopped).                                                               *)
C35_NeverSurfaced ==
    /\ [](connection._running => run_pc \in Awaits)
    /\ [][(/\ stop_pc = "idle"
           /\ run_pc \in {"connect", "reconnect", "reading"}
           /\ run_pc' \notin {run_pc, "reading"}) =>
                /\ run_pc' = "sleep"
                /\ connection'._running
                /\ slept' = Some(connection'._reconnect_delay)]_vars
    /\ TransportAccepts =>
            ((connection._running /\ connection._state # "CONNECTED")
                ~> (connection._state = "CONNECTED" \/ ~connection._running))

C35_Witness ==
    /\ connection._running
    /\ connection._state = "CONNECTED"
    /\ last_msg # None
    /\ last_msg[1].frame.type = "ERROR"
    /\ slept = Some(2 * RECONNECT_MULTIPLIER * MIN_RECONNECT_DELAY)

(* C36: a stop() that has cancelled the stream task returns, whatever the  *)
(* task was awaiting (ws_connect, the next frame, the backoff sleep); once *)
(* it has returned the task has ended, the state is CLOSED, and from then  *)
(* on no frame is handled, no connect attempt is made and the connection   *)
(* does not change.                                                        *)
C36_StopEndsTask ==
    /\ [](stop_pc = "returned" =>
            /\ connection._state = "CLOSED"
            /\ ~connection._running
            /\ run_pc \in TaskDone)
    /\ [][stop_pc = "returned" =>
            UNCHANGED <<connection, run_pc, attempts, last_msg, ticker_updates>>]_vars
    /\ \A at \in Awaits :
            (stop_pc = "wait_for" /\ run_pc = at) ~> (stop_pc = "returned")

C36_Witness ==
    /\ stop_pc = "returned"
    /\ run_pc = "returned"
    /\ connection._state = "CLOSED"
    /\ connection._message_count = MaxMessages
    /\ slept # None

====
